---- MODULE Spec2Model ----
(***************************************************************************)
(* Model of the school-record manager (ismaelsuarez/colegios).             *)
(*                                                                         *)
(* Text is modelled as a sequence of one-character strings, so that        *)
(* str.strip(), int(), str() and the file-name sanitizer are computed and  *)
(* not assumed.  A CSV file is modelled at the level of the csv library:   *)
(* a header flag and a sequence of rows, each row a sequence of text       *)
(* fields (quoting and line endings are the library's own exact codec).    *)
(* A record in memory is a function from the column names of the program   *)
(* to values: text for "Provincia" and "Colegio", integers for the two     *)
(* numeric columns, plus "id" on records returned by the remote service.   *)
(***************************************************************************)
EXTENDS Integers, Sequences, FiniteSets, TLC

VARIABLES
    colegios,    \* ejecutar.py: global in-memory collection
    MODO_API,    \* ejecutar.py: global mode flag, FALSE = local
    archivo,     \* content of src/base_de_datos/colegios.csv
    subgrupos,   \* content of the three folders under subgrupos/
    remoto,      \* records held by the remote service (external)
    fallas,      \* number of failures the environment has injected so far
    pasos,       \* number of handlers run so far that had an effect
    ultimo       \* the last handler run that had an effect: what it returned

vars == <<colegios, MODO_API, archivo, subgrupos, remoto, fallas, pasos, ultimo>>

----------------------------------------------------------------------------
(* Bounds *)

MaxColegios == 2      \* longest in-memory / on-disk collection explored
MaxRemoto == 2        \* most records the remote service holds
MaxFallas == 1        \* most I/O failures injected in one run
MaxPasos == 3         \* most handlers with an effect in one run

----------------------------------------------------------------------------
(* Text primitives *)

\* The whitespace str.strip() removes, on the characters of the model
Blancos == {" ", "\t"}

RECURSIVE LStrip(_)
LStrip(s) ==
    IF s = <<>> THEN <<>>
    ELSE IF Head(s) \in Blancos THEN LStrip(Tail(s)) ELSE s

RECURSIVE RStrip(_)
RStrip(s) ==
    IF s = <<>> THEN <<>>
    ELSE IF s[Len(s)] \in Blancos THEN RStrip(SubSeq(s, 1, Len(s) - 1)) ELSE s

\* str.strip()
Strip(s) == RStrip(LStrip(s))

Digitos == <<"0", "1", "2", "3", "4", "5", "6", "7", "8", "9">>

EsDigito(c) == \E d \in 1..10 : Digitos[d] = c

ValorDigito(c) == (CHOOSE d \in 1..10 : Digitos[d] = c) - 1

RECURSIVE ValorDigitos(_)
ValorDigitos(s) ==
    IF s = <<>> THEN 0
    ELSE 10 * ValorDigitos(SubSeq(s, 1, Len(s) - 1)) + ValorDigito(s[Len(s)])

SoloDigitos(s) == s # <<>> /\ \A i \in 1..Len(s) : EsDigito(s[i])

\* int(texto): ok = FALSE stands for ValueError
ParseInt(texto) ==
    LET s == Strip(texto) IN
    IF s # <<>> /\ Head(s) \in {"-", "+"}
    THEN IF SoloDigitos(Tail(s))
         THEN [ok |-> TRUE,
               val |-> IF Head(s) = "-" THEN 0 - ValorDigitos(Tail(s))
                       ELSE ValorDigitos(Tail(s))]
         ELSE [ok |-> FALSE, val |-> 0]
    ELSE IF SoloDigitos(s)
         THEN [ok |-> TRUE, val |-> ValorDigitos(s)]
         ELSE [ok |-> FALSE, val |-> 0]

RECURSIVE NatToStr(_)
NatToStr(n) ==
    IF n < 10 THEN <<Digitos[n + 1]>>
    ELSE NatToStr(n \div 10) \o <<Digitos[(n % 10) + 1]>>

\* str(entero) that drops the sign
IntToStrSinSigno(n) == IF n < 0 THEN NatToStr(0 - n) ELSE NatToStr(n)

\* str(entero), as csv.DictWriter formats a numeric field
IntToStr(n) == IF n < 0 THEN <<"-">> \o NatToStr(0 - n) ELSE NatToStr(n)

\* str.lower() on the characters of the model
Minuscula(c) ==
    CASE c = "X" -> "x"
      [] c = "Y" -> "y"
      [] c = "S" -> "s"
      [] c = "Á" -> "á"
      [] OTHER -> c

\* NFD decomposition followed by the removal of the combining marks (Mn)
SinAcento(c) ==
    CASE c = "á" -> "a"
      [] c = "Á" -> "A"
      [] OTHER -> c

lower(texto) == [i \in 1..Len(texto) |-> Minuscula(texto[i])]

normalizar(texto) ==
    LET s == Strip(lower(texto)) IN [i \in 1..Len(s) |-> SinAcento(s[i])]

\* Python's `a in b` on strings
Contiene(b, a) ==
    \E i \in 0..(Len(b) - Len(a)) : SubSeq(b, i + 1, i + Len(a)) = a

----------------------------------------------------------------------------
(* Records and files *)

campos == <<"Provincia", "Colegio", "Cantidad de Estudiantes", "Año de Creación">>

CamposSet == {campos[i] : i \in 1..Len(campos)}

\* The dict built at carga_datos.py:51 / utilidades.py:77
Colegio(provincia, colegio, cantidad, anio) ==
    ("Provincia" :> provincia) @@ ("Colegio" :> colegio)
        @@ ("Cantidad de Estudiantes" :> cantidad) @@ ("Año de Creación" :> anio)

\* A file that was opened for writing and holds a header and rows
ArchivoCon(filas) == [existe |-> TRUE, cabecera |-> TRUE, filas |-> filas]

\* A file truncated by open(..., 'w') in which nothing was written
ArchivoVacio == [existe |-> TRUE, cabecera |-> FALSE, filas |-> <<>>]

NoExiste == [existe |-> FALSE, cabecera |-> FALSE, filas |-> <<>>]

\* csv.DictWriter._dict_to_list: one text field per column, '' for a missing key
FilaDe(c) ==
    [i \in 1..4 |->
        IF campos[i] \notin DOMAIN c THEN <<>>
        ELSE IF i <= 2 THEN c[campos[i]] ELSE IntToStr(c[campos[i]])]

\* DictWriter(extrasaction='raise'): index of the first record that carries a
\* key outside fieldnames (ValueError), 0 when there is none
PrimerExtra(lista) ==
    LET malos == {i \in 1..Len(lista) : DOMAIN lista[i] \ CamposSet # {}} IN
    IF malos = {} THEN 0 ELSE CHOOSE i \in malos : \A j \in malos : i <= j

\* c["Provincia"], ... in the bucket writers: index of the first record that
\* lacks one of the four keys (KeyError), 0 when there is none
PrimerIncompleto(lista) ==
    LET malos == {i \in 1..Len(lista) : CamposSet \ DOMAIN lista[i] # {}} IN
    IF malos = {} THEN 0 ELSE CHOOSE i \in malos : \A j \in malos : i <= j

FilasDe(lista) == [i \in 1..Len(lista) |-> FilaDe(lista[i])]

----------------------------------------------------------------------------
(* Record Store: load *)

\* One row of csv.DictReader through the body of the loop of leer_csv:
\* ok = FALSE is a skipped row (filas_invalidas += 1)
LeerFila(fila) ==
    IF Len(fila) < 4
    THEN [ok |-> FALSE, colegio |-> <<>>]     \* None.strip() -> except Exception
    ELSE LET provincia == Strip(fila[1])
             colegio == Strip(fila[2])
             cantidad_str == Strip(fila[3])
             anio_str == Strip(fila[4])
             cantidad == IF cantidad_str = <<>> THEN [ok |-> TRUE, val |-> 0]
                         ELSE ParseInt(cantidad_str)
             anio == IF anio_str = <<>> THEN [ok |-> TRUE, val |-> 0]
                     ELSE ParseInt(anio_str)
         IN IF provincia = <<>> \/ colegio = <<>>
            THEN [ok |-> FALSE, colegio |-> <<>>]
            ELSE IF ~cantidad.ok \/ ~anio.ok
            THEN [ok |-> FALSE, colegio |-> <<>>]
            ELSE [ok |-> TRUE,
                  colegio |-> Colegio(provincia, colegio, cantidad.val, anio.val)]

\* The row loop when it ends at the first row it cannot take
RECURSIVE LeerFilasHastaInvalida(_)
LeerFilasHastaInvalida(filas) ==
    IF filas = <<>> THEN <<>>
    ELSE LET r == LeerFila(Head(filas)) IN
         IF r.ok THEN <<r.colegio>> \o LeerFilasHastaInvalida(Tail(filas))
         ELSE <<>>

RECURSIVE LeerFilas(_)
LeerFilas(filas) ==
    IF filas = <<>> THEN <<>>
    ELSE LET r == LeerFila(Head(filas)) IN
         IF r.ok THEN <<r.colegio>> \o LeerFilas(Tail(filas))
         ELSE LeerFilas(Tail(filas))

leer_csv(f) ==
    IF ~f.existe THEN <<>>
    ELSE IF ~f.cabecera THEN <<>>
    ELSE LeerFilas(f.filas)

\* filas_invalidas at the end of leer_csv
filas_invalidas(f) ==
    IF ~f.existe \/ ~f.cabecera THEN 0
    ELSE Cardinality({i \in 1..Len(f.filas) : ~LeerFila(f.filas[i]).ok})

----------------------------------------------------------------------------
(* Hierarchical Projector *)

Carpetas == {"por_provincia", "por_estudiantes", "por_año"}

Reemplazados == {"/", "\\", ":", "*", "?", "\"", "<", ">", "|"}

SinNombre == <<"S", "i", "n", "N", "o", "m", "b", "r", "e">>

Desconocida == <<"D", "e", "s", "c", "o", "n", "o", "c", "i", "d", "a">>

\* The sanitizer without its last line: an empty name stays empty
LimpiarSinReserva(nombre) ==
    Strip([i \in 1..Len(nombre) |->
              IF nombre[i] \in Reemplazados THEN "-" ELSE nombre[i]])

limpiar_nombre_archivo(nombre) ==
    LET r == Strip([i \in 1..Len(nombre) |->
                       IF nombre[i] \in Reemplazados THEN "-" ELSE nombre[i]])
    IN IF r # <<>> THEN r ELSE SinNombre

Menos_300 == <<"M", "e", "n", "o", "s", "_", "3", "0", "0">>
R300_499 == <<"3", "0", "0", "_", "4", "9", "9">>
R500_699 == <<"5", "0", "0", "_", "6", "9", "9">>
R700_o_mas == <<"7", "0", "0", "_", "o", "_", "m", "a", "s">>

Antes_1970 == <<"A", "n", "t", "e", "s", "_", "1", "9", "7", "0">>
D1970_1979 == <<"1", "9", "7", "0", "_", "1", "9", "7", "9">>
D1980_1989 == <<"1", "9", "8", "0", "_", "1", "9", "8", "9">>
D1990_1999 == <<"1", "9", "9", "0", "_", "1", "9", "9", "9">>
D2000_o_despues == <<"2", "0", "0", "0", "_", "o", "_", "d", "e", "s", "p", "u", "e", "s">>

\* Grouping key of one record in each folder
ClaveProvincia(c) ==
    IF "Provincia" \in DOMAIN c THEN c["Provincia"] ELSE Desconocida

\* The ranges with their upper ends taken in: 300 still counts as "less"
ClaveEstudiantesHastaLimite(c) ==
    LET estudiantes == IF "Cantidad de Estudiantes" \in DOMAIN c
                       THEN c["Cantidad de Estudiantes"] ELSE 0
    IN IF estudiantes <= 300 THEN <<"M", "e", "n", "o", "s", "_", "3", "0", "0">>
       ELSE IF estudiantes <= 500 THEN <<"3", "0", "0", "_", "4", "9", "9">>
       ELSE IF estudiantes <= 700 THEN <<"5", "0", "0", "_", "6", "9", "9">>
       ELSE <<"7", "0", "0", "_", "o", "_", "m", "a", "s">>

ClaveEstudiantes(c) ==
    LET estudiantes == IF "Cantidad de Estudiantes" \in DOMAIN c
                       THEN c["Cantidad de Estudiantes"] ELSE 0
    IN IF estudiantes < 300 THEN Menos_300
       ELSE IF estudiantes < 500 THEN R300_499
       ELSE IF estudiantes < 700 THEN R500_699
       ELSE R700_o_mas

\* The decades with the last one closed at 2000: 2000 is still the nineties
ClaveAnioHastaLimite(c) ==
    LET anio == IF "Año de Creación" \in DOMAIN c THEN c["Año de Creación"] ELSE 0
    IN IF anio < 1970 THEN <<"A", "n", "t", "e", "s", "_", "1", "9", "7", "0">>
       ELSE IF anio < 1980 THEN <<"1", "9", "7", "0", "_", "1", "9", "7", "9">>
       ELSE IF anio < 1990 THEN <<"1", "9", "8", "0", "_", "1", "9", "8", "9">>
       ELSE <<"1", "9", "9", "0", "_", "1", "9", "9", "9">>

ClaveAnio(c) ==
    LET anio == IF "Año de Creación" \in DOMAIN c THEN c["Año de Creación"] ELSE 0
    IN IF anio < 1970 THEN Antes_1970
       ELSE IF anio < 1980 THEN D1970_1979
       ELSE IF anio < 1990 THEN D1980_1989
       ELSE IF anio < 2000 THEN D1990_1999
       ELSE D2000_o_despues

Clave(carpeta, c) ==
    CASE carpeta = "por_provincia" -> ClaveProvincia(c)
      [] carpeta = "por_estudiantes" -> ClaveEstudiantes(c)
      [] carpeta = "por_año" -> ClaveAnio(c)

\* Keys of a dict in insertion order: each key at its first occurrence
RECURSIVE SinRepetir(_)
SinRepetir(s) ==
    IF s = <<>> THEN <<>>
    ELSE LET antes == SinRepetir(SubSeq(s, 1, Len(s) - 1)) IN
         IF \E i \in 1..Len(antes) : antes[i] = s[Len(s)] THEN antes
         ELSE Append(antes, s[Len(s)])

ClavesEnOrden(carpeta, lista) ==
    SinRepetir([i \in 1..Len(lista) |-> Clave(carpeta, lista[i])])

\* Grupo without its filter: every bucket gets every record
GrupoSinFiltro(carpeta, lista, clave) == lista

Grupo(carpeta, lista, clave) ==
    SelectSeq(lista, LAMBDA c : Clave(carpeta, c) = clave)

\* The file one bucket leaves behind: header and every row, or header and the
\* rows before the first record whose c[...] raises KeyError
ArchivoDeGrupo(lista_colegios) ==
    LET malo == PrimerIncompleto(lista_colegios) IN
    IF malo = 0 THEN ArchivoCon(FilasDe(lista_colegios))
    ELSE ArchivoCon(FilasDe(SubSeq(lista_colegios, 1, malo - 1)))

\* The loop "for clave, lista_colegios in ....items()" of one organizar_por_*:
\* dir is the folder (file name -> file), claves the keys still to write in
\* dict order, falla_en the number of keys left when open() fails (0: never).
\* Returns the folder, whether the loop ran to its end, and whether it was
\* the injected failure that stopped it.
RECURSIVE EscribirGrupos(_, _, _, _, _)
EscribirGrupos(carpeta, lista, dir, claves, falla_en) ==
    IF claves = <<>> THEN [ok |-> TRUE, dir |-> dir, fallo |-> FALSE]
    ELSE IF Len(claves) = falla_en THEN [ok |-> FALSE, dir |-> dir, fallo |-> TRUE]
    ELSE LET lista_colegios == Grupo(carpeta, lista, Head(claves))
             nombre_archivo == limpiar_nombre_archivo(Head(claves))
             escrito == (nombre_archivo :> ArchivoDeGrupo(lista_colegios)) @@ dir
         IN IF PrimerIncompleto(lista_colegios) # 0
            THEN [ok |-> FALSE, dir |-> escrito, fallo |-> FALSE]
            ELSE EscribirGrupos(carpeta, lista, escrito, Tail(claves), falla_en)

\* organizar_por_provincia / _estudiantes / _año; falla_k is the 1-based
\* position of the bucket file whose open() fails (0: none)
organizar(carpeta, lista, dir, falla_k) ==
    LET claves == ClavesEnOrden(carpeta, lista) IN
    EscribirGrupos(carpeta, lista, dir, claves,
                   IF falla_k = 0 THEN 0 ELSE Len(claves) - falla_k + 1)

\* One organizar_por_* has run on the tree sub and returned o: the tree it
\* leaves, and whether the next one runs (an exception ends the chain)
Organizado(sub, carpeta, o) ==
    [ok |-> o.ok, sub |-> [sub EXCEPT ![carpeta] = o.dir], fallo |-> o.fallo]

\* "organizar_por_x(...)" after the steps before it ended as s
Luego(s, carpeta, lista, falla) ==
    IF ~s.ok THEN s
    ELSE Organizado(s.sub, carpeta,
                    organizar(carpeta, lista, s.sub[carpeta],
                              IF falla.punto = carpeta THEN falla.k ELSE 0))

\* falla names where the environment makes a call fail:
\*   punto = "ninguna", or "carpetas" (mkdir), or a folder name with
\*   k = position of the bucket file whose open() fails
sincronizar_estructura_jerarquica(lista, sub, falla) ==
    IF falla.punto = "carpetas" THEN [ok |-> FALSE, sub |-> sub, fallo |-> TRUE]
    ELSE Luego(Luego(Luego([ok |-> TRUE, sub |-> sub, fallo |-> FALSE],
                           "por_provincia", lista, falla),
                     "por_estudiantes", lista, falla),
               "por_año", lista, falla)

----------------------------------------------------------------------------
(* Record Store: save *)

SinFalla == [punto |-> "ninguna", k |-> 0]

\* escribir_csv(ruta_csv, lista) on the disk (arch, sub).  Returns what it
\* returns (ok), whether the block that writes the authoritative file ran to
\* its end (escrito), the disk it leaves, and whether the injected failure
\* was met (fallo).
\*   falla.punto = "abrir": open() of the authoritative file fails
\*   falla.punto = "cabecera": the write of the header fails
\*   falla.punto = "fila": the write fails with falla.k rows written
\* The authoritative file has been written; s is how the projection ended.
\* Only ImportError is handled around the projection: any other exception
\* reaches the outer "except Exception" and returns False.
TrasEscribir(lista, s) ==
    [ok |-> s.ok, escrito |-> TRUE, fallo |-> s.fallo,
     archivo |-> ArchivoCon(FilasDe(lista)), subgrupos |-> s.sub]

escribir_csv(lista, arch, sub, falla) ==
    LET extra == PrimerExtra(lista) IN
    IF falla.punto = "abrir"
    THEN [ok |-> FALSE, escrito |-> FALSE, fallo |-> TRUE,
          archivo |-> arch, subgrupos |-> sub]
    ELSE IF falla.punto = "cabecera"
    THEN [ok |-> FALSE, escrito |-> FALSE, fallo |-> TRUE,
          archivo |-> ArchivoVacio, subgrupos |-> sub]
    ELSE IF falla.punto = "fila" /\ falla.k < Len(lista)
                                 /\ (extra = 0 \/ falla.k < extra)
    THEN [ok |-> FALSE, escrito |-> FALSE, fallo |-> TRUE,
          archivo |-> ArchivoCon(FilasDe(SubSeq(lista, 1, falla.k))),
          subgrupos |-> sub]
    ELSE IF extra # 0
    THEN [ok |-> FALSE, escrito |-> FALSE, fallo |-> FALSE,
          archivo |-> ArchivoCon(FilasDe(SubSeq(lista, 1, extra - 1))),
          subgrupos |-> sub]
    ELSE TrasEscribir(lista, sincronizar_estructura_jerarquica(lista, sub, falla))

MaxLista == IF MaxColegios > MaxRemoto THEN MaxColegios ELSE MaxRemoto

\* The failures the environment can inject into one save
Fallas ==
    {SinFalla}
    \cup {[punto |-> x, k |-> 0] : x \in {"abrir", "cabecera", "carpetas"}}
    \cup {[punto |-> "fila", k |-> k] : k \in 0..(MaxLista - 1)}
    \cup {[punto |-> carpeta, k |-> k] : carpeta \in Carpetas, k \in 1..MaxLista}

\* The failures injected into the saves of a local session: the open fails
\* (nothing is written), the write stops after k rows, the projection fails
\* before its first file
FallasSesion ==
    {[punto |-> x, k |-> 0] : x \in {"abrir", "carpetas"}}
    \cup {[punto |-> "fila", k |-> k] : k \in 0..(MaxColegios - 1)}

\* ... while the run's budget of failures lasts
FallasAhora == IF fallas < MaxFallas THEN FallasSesion ELSE {}

----------------------------------------------------------------------------
(* What the user can type at a prompt *)

TextosProvincia == {<<" ">>, <<"a", "/", "b">>, <<" ", "a", "-", "b">>}

TextosColegio == {<<>>, <<"X">>}

TextosCantidad == {<<>>, <<"3", "0", "0">>, <<"-", "1">>, <<"x">>}

TextosAnio == {<<>>, <<"1", "9", "7", "0">>, <<"2", "1", "0", "1">>}

TextosBusqueda == {<<>>, <<"x", " ">>, <<"z">>}

TextosOpcion == {<<"0">>, <<"x">>} \cup {NatToStr(i) : i \in 1..MaxColegios}

TextosConfirmar == {<<"S", " ">>, <<"n">>}

----------------------------------------------------------------------------
(* Initial state: init_db has created the file, nothing is loaded *)

DirVacio == [x \in {} |-> ArchivoVacio]

Init ==
    /\ colegios = <<>>
    /\ MODO_API = FALSE
    /\ archivo = ArchivoCon(<<>>)
    /\ subgrupos = [c \in Carpetas |-> DirVacio]
    /\ remoto = <<>>
    /\ fallas = 0
    /\ pasos = 0
    /\ ultimo = [op |-> "inicio", ok |-> TRUE, escrito |-> TRUE]

----------------------------------------------------------------------------
(* Local mode: the handlers of carga_datos.py.  Each is a function of the   *)
(* list, the disk and what the user types; it returns the list as the       *)
(* handler leaves it, the disk, the value returned and why.                 *)

\* return False before the save is reached
Rechaza(motivo, lista, arch, sub) ==
    [colegios |-> lista, archivo |-> arch, subgrupos |-> sub,
     resultado |-> FALSE, motivo |-> motivo, fallo |-> FALSE, escrito |-> FALSE]

\* SegunGuardado returning True whatever escribir_csv returned
SegunGuardadoSiempreExito(g, lista, revertida) ==
    [colegios |-> lista, archivo |-> g.archivo, subgrupos |-> g.subgrupos,
     resultado |-> TRUE, motivo |-> "ok", fallo |-> g.fallo, escrito |-> g.escrito]

\* SegunGuardado that reports the failed save and keeps the changed list
SegunGuardadoSinRevertir(g, lista, revertida) ==
    [colegios |-> lista, archivo |-> g.archivo, subgrupos |-> g.subgrupos,
     resultado |-> g.ok, motivo |-> IF g.ok THEN "ok" ELSE "guardar",
     fallo |-> g.fallo, escrito |-> g.escrito]

\* "if escribir_csv(ruta_csv, colegios): return True / else: revert, return False"
SegunGuardado(g, lista, revertida) ==
    [colegios |-> IF g.ok THEN lista ELSE revertida,
     archivo |-> g.archivo, subgrupos |-> g.subgrupos,
     resultado |-> g.ok, motivo |-> IF g.ok THEN "ok" ELSE "guardar",
     fallo |-> g.fallo, escrito |-> g.escrito]

Guarda(lista, revertida, arch, sub, falla) ==
    SegunGuardado(escribir_csv(lista, arch, sub, falla), lista, revertida)

\* "int(texto) if texto else 0"
EnteroODefecto(texto) ==
    IF texto = <<>> THEN [ok |-> TRUE, val |-> 0] ELSE ParseInt(texto)

agregar_colegio(lista, arch, sub, provincia_in, colegio_in, cantidad_in, anio_in, falla) ==
    LET provincia == Strip(provincia_in)
        colegio == Strip(colegio_in)
        cantidad == EnteroODefecto(Strip(cantidad_in))
        anio == EnteroODefecto(Strip(anio_in))
    IN IF provincia = <<>> \/ colegio = <<>>
       THEN Rechaza("validacion", lista, arch, sub)
       ELSE IF ~cantidad.ok \/ ~anio.ok
       THEN Rechaza("validacion", lista, arch, sub)
       ELSE IF cantidad.val < 0
       THEN Rechaza("validacion", lista, arch, sub)
       ELSE IF anio.val < 1800 \/ anio.val > 2100
       THEN Rechaza("validacion", lista, arch, sub)
       ELSE Guarda(Append(lista, Colegio(provincia, colegio, cantidad.val, anio.val)),
                   lista, arch, sub, falla)

\* The members of a set of indices as a list in increasing order
RECURSIVE EnOrden(_, _)
EnOrden(hallados, n) ==
    IF n = 0 THEN <<>>
    ELSE IF n \in hallados THEN Append(EnOrden(hallados, n - 1), n)
    ELSE EnOrden(hallados, n - 1)

\* indices_encontrados, in increasing order
indices_encontrados(lista, nombre_buscar) ==
    LET nombre_normalizado == normalizar(nombre_buscar)
        hallados == {i \in 1..Len(lista) :
                        Contiene(normalizar(lista[i]["Colegio"]), nombre_normalizado)}
    IN EnOrden(hallados, Len(lista))

\* The selection among several matches: the index chosen, or 0 when the
\* number typed is out of range or is not a number
Seleccion(indices, opcion_in) ==
    IF Len(indices) > 1
    THEN LET n == ParseInt(opcion_in) IN
         IF n.ok /\ 0 <= n.val - 1 /\ n.val - 1 < Len(indices)
         THEN indices[n.val] ELSE 0
    ELSE indices[1]

\* "Aplicar cambios" that assigns the new province even when it is blank
AplicarCambiosConBlancos(lista, idx_editar, nueva_provincia, nuevo_colegio, nueva_cantidad_str, nuevo_anio_str) ==
    LET l1 == [lista EXCEPT ![idx_editar]["Provincia"] = nueva_provincia]
        l2 == IF nuevo_colegio # <<>>
              THEN [l1 EXCEPT ![idx_editar]["Colegio"] = nuevo_colegio]
              ELSE l1
        cantidad == ParseInt(nueva_cantidad_str)
        l3 == IF nueva_cantidad_str # <<>>
              THEN [l2 EXCEPT ![idx_editar]["Cantidad de Estudiantes"] = cantidad.val]
              ELSE l2
        anio == ParseInt(nuevo_anio_str)
        l4 == IF nuevo_anio_str # <<>>
              THEN [l3 EXCEPT ![idx_editar]["Año de Creación"] = anio.val]
              ELSE l3
    IN IF nueva_cantidad_str # <<>> /\ (~cantidad.ok \/ cantidad.val < 0)
       THEN [ok |-> FALSE, lista |-> l2]
       ELSE IF nuevo_anio_str # <<>>
               /\ (~anio.ok \/ anio.val < 1800 \/ anio.val > 2100)
       THEN [ok |-> FALSE, lista |-> l3]
       ELSE [ok |-> TRUE, lista |-> l4]

\* The block "Aplicar cambios": the fields are assigned one by one on the
\* record inside the list, and a validation failure returns at once.
\* Returns the list as the block leaves it and whether it ran to its end.
AplicarCambios(lista, idx_editar, nueva_provincia, nuevo_colegio, nueva_cantidad_str, nuevo_anio_str) ==
    LET l1 == IF nueva_provincia # <<>>
              THEN [lista EXCEPT ![idx_editar]["Provincia"] = nueva_provincia]
              ELSE lista
        l2 == IF nuevo_colegio # <<>>
              THEN [l1 EXCEPT ![idx_editar]["Colegio"] = nuevo_colegio]
              ELSE l1
        cantidad == ParseInt(nueva_cantidad_str)
        l3 == IF nueva_cantidad_str # <<>>
              THEN [l2 EXCEPT ![idx_editar]["Cantidad de Estudiantes"] = cantidad.val]
              ELSE l2
        anio == ParseInt(nuevo_anio_str)
        l4 == IF nuevo_anio_str # <<>>
              THEN [l3 EXCEPT ![idx_editar]["Año de Creación"] = anio.val]
              ELSE l3
    IN IF nueva_cantidad_str # <<>> /\ (~cantidad.ok \/ cantidad.val < 0)
       THEN [ok |-> FALSE, lista |-> l2]
       ELSE IF nuevo_anio_str # <<>>
               /\ (~anio.ok \/ anio.val < 1800 \/ anio.val > 2100)
       THEN [ok |-> FALSE, lista |-> l3]
       ELSE [ok |-> TRUE, lista |-> l4]

editar_colegio(lista, arch, sub, nombre_in, opcion_in, provincia_in, colegio_in, cantidad_in, anio_in, falla) ==
    LET nombre_buscar == Strip(nombre_in)
        indices == indices_encontrados(lista, nombre_buscar)
        idx_editar == Seleccion(indices, opcion_in)
        cambios == AplicarCambios(lista, idx_editar,
                                  Strip(provincia_in), Strip(colegio_in),
                                  Strip(cantidad_in), Strip(anio_in))
    IN IF lista = <<>>
       THEN Rechaza("vacio", lista, arch, sub)
       ELSE IF nombre_buscar = <<>>
       THEN Rechaza("sin_nombre", lista, arch, sub)
       ELSE IF indices = <<>>
       THEN Rechaza("no_encontrado", lista, arch, sub)
       ELSE IF idx_editar = 0
       THEN Rechaza("opcion", lista, arch, sub)
       ELSE IF ~cambios.ok
       THEN Rechaza("validacion", cambios.lista, arch, sub)
       ELSE Guarda(cambios.lista, lista, arch, sub, falla)

\* colegios.pop(idx)
Quitar(lista, idx) ==
    SubSeq(lista, 1, idx - 1) \o SubSeq(lista, idx + 1, Len(lista))

borrar_colegio(lista, arch, sub, nombre_in, opcion_in, confirmar_in, falla) ==
    LET nombre_buscar == Strip(nombre_in)
        indices == indices_encontrados(lista, nombre_buscar)
        idx_borrar == Seleccion(indices, opcion_in)
    IN IF lista = <<>>
       THEN Rechaza("vacio", lista, arch, sub)
       ELSE IF nombre_buscar = <<>>
       THEN Rechaza("sin_nombre", lista, arch, sub)
       ELSE IF indices = <<>>
       THEN Rechaza("no_encontrado", lista, arch, sub)
       ELSE IF idx_borrar = 0
       THEN Rechaza("opcion", lista, arch, sub)
       ELSE IF lower(Strip(confirmar_in)) # <<"s">>
       THEN Rechaza("cancelado", lista, arch, sub)
       ELSE Guarda(Quitar(lista, idx_borrar), lista, arch, sub, falla)

----------------------------------------------------------------------------
(* Local mode: the branches of the menu loop of main *)

\* "if agregar_colegio(colegios, db_path): colegios = leer_csv(db_path)" and
\* its two siblings: r is what the handler returned and left behind
RamaLocal(op, r) ==
    /\ colegios' = IF r.resultado THEN leer_csv(r.archivo) ELSE r.colegios
    /\ archivo' = r.archivo
    /\ subgrupos' = r.subgrupos
    /\ fallas' = IF r.fallo THEN fallas + 1 ELSE fallas
    /\ pasos' = IF r.motivo \in {"ok", "guardar"} \/ r.colegios # colegios
                THEN pasos + 1 ELSE pasos
    /\ ultimo' = IF r.motivo \in {"ok", "guardar"} \/ r.colegios # colegios
                 THEN [op |-> op, ok |-> r.resultado, escrito |-> r.escrito]
                 ELSE ultimo
    /\ UNCHANGED <<MODO_API, remoto>>

\* A failure can be injected only into a run that reaches the save (its
\* failure-free run r0 ends "ok"), and counts only if the run meets it
Inyectable(r0) == IF r0.motivo = "ok" THEN FallasAhora ELSE {}

AgregarColegio ==
    /\ ~MODO_API
    /\ pasos < MaxPasos
    /\ Len(colegios) < MaxColegios
    /\ \E provincia_in \in TextosProvincia, colegio_in \in TextosColegio,
          cantidad_in \in TextosCantidad, anio_in \in TextosAnio :
       \E r0 \in {agregar_colegio(colegios, archivo, subgrupos, provincia_in,
                                  colegio_in, cantidad_in, anio_in, SinFalla)} :
          \/ RamaLocal("agregar", r0)
          \/ \E falla \in Inyectable(r0) :
             \E r \in {agregar_colegio(colegios, archivo, subgrupos, provincia_in,
                                       colegio_in, cantidad_in, anio_in, falla)} :
                 r.fallo /\ RamaLocal("agregar", r)

\* The prompts a run of editar_colegio / borrar_colegio reaches: a prompt that
\* is never shown gets no input
PideOpcion(nombre_in) ==
    Len(indices_encontrados(colegios, Strip(nombre_in))) > 1

PideDatos(nombre_in, opcion_in) ==
    /\ Strip(nombre_in) # <<>>
    /\ indices_encontrados(colegios, Strip(nombre_in)) # <<>>
    /\ Seleccion(indices_encontrados(colegios, Strip(nombre_in)), opcion_in) # 0

EditarColegio ==
    /\ ~MODO_API
    /\ pasos < MaxPasos
    /\ \E nombre_in \in TextosBusqueda :
       \E opcion_in \in IF PideOpcion(nombre_in) THEN TextosOpcion ELSE {<<>>} :
       \E pide \in {PideDatos(nombre_in, opcion_in)} :
       \E provincia_in \in IF pide THEN TextosProvincia ELSE {<<>>},
          colegio_in \in IF pide THEN TextosColegio ELSE {<<>>},
          cantidad_in \in IF pide THEN TextosCantidad ELSE {<<>>},
          anio_in \in IF pide THEN TextosAnio ELSE {<<>>} :
       \E r0 \in {editar_colegio(colegios, archivo, subgrupos, nombre_in,
                                 opcion_in, provincia_in, colegio_in,
                                 cantidad_in, anio_in, SinFalla)} :
          \/ RamaLocal("editar", r0)
          \/ \E falla \in Inyectable(r0) :
             \E r \in {editar_colegio(colegios, archivo, subgrupos, nombre_in,
                                      opcion_in, provincia_in, colegio_in,
                                      cantidad_in, anio_in, falla)} :
                 r.fallo /\ RamaLocal("editar", r)

BorrarColegio ==
    /\ ~MODO_API
    /\ pasos < MaxPasos
    /\ \E nombre_in \in TextosBusqueda :
       \E opcion_in \in IF PideOpcion(nombre_in) THEN TextosOpcion ELSE {<<>>} :
       \E pide \in {PideDatos(nombre_in, opcion_in)} :
       \E confirmar_in \in IF pide THEN TextosConfirmar ELSE {<<>>} :
       \E r0 \in {borrar_colegio(colegios, archivo, subgrupos, nombre_in,
                                 opcion_in, confirmar_in, SinFalla)} :
          \/ RamaLocal("borrar", r0)
          \/ \E falla \in Inyectable(r0) :
             \E r \in {borrar_colegio(colegios, archivo, subgrupos, nombre_in,
                                      opcion_in, confirmar_in, falla)} :
                 r.fallo /\ RamaLocal("borrar", r)

----------------------------------------------------------------------------
(* Local session *)

Next ==
    \/ AgregarColegio
    \/ EditarColegio
    \/ BorrarColegio

Spec == Init /\ [][Next]_vars

----------------------------------------------------------------------------
(* The remote service, as its contract describes it: every record it holds  *)
(* carries the four fields and the id the service assigned                  *)

CuatroCampos(c) == [k \in CamposSet |-> c[k]]

SinId(lista) == [i \in 1..Len(lista) |-> CuatroCampos(lista[i])]

\* GET /colegios?q=: the records whose name or province contains the text
ListarRemoto(rem, q) ==
    IF q = <<>> THEN rem
    ELSE SelectSeq(rem, LAMBDA c :
             \/ Contiene(normalizar(c["Colegio"]), normalizar(q))
             \/ Contiene(normalizar(c["Provincia"]), normalizar(q)))

SiguienteId(rem) ==
    1 + (IF rem = <<>> THEN 0
         ELSE CHOOSE m \in {rem[i]["id"] : i \in 1..Len(rem)} :
                  \A i \in 1..Len(rem) : rem[i]["id"] <= m)

\* POST /colegios
CrearRemoto(rem, c) == Append(rem, c @@ ("id" :> SiguienteId(rem)))

\* PATCH /colegios/{id}: the fields of cambios replace those of the record
ActualizarRemoto(rem, id_colegio, cambios) ==
    [i \in 1..Len(rem) |->
        IF rem[i]["id"] = id_colegio
        THEN [k \in DOMAIN rem[i] |-> IF k \in DOMAIN cambios THEN cambios[k] ELSE rem[i][k]]
        ELSE rem[i]]

\* DELETE /colegios/{id}
EliminarRemoto(rem, id_colegio) ==
    SelectSeq(rem, LAMBDA c : c["id"] # id_colegio)

----------------------------------------------------------------------------
(* API mode: the handlers of modo_api.py *)

\* Where the environment makes one run of a handler fail:
\*   "llamada": the request that creates, updates or deletes raises
\*   "listar":  the request of the mirror that lists every record raises
\*   "ruta":    the mirror raises while it works out the path of the file
\*   "abrir":   the open() of the local authoritative file fails
FallasApi == {[punto |-> x, k |-> 0] : x \in {"llamada", "listar", "ruta", "abrir"}}

\* obtener_colegios_api: any exception of the request ends in []
obtener_colegios_api(rem, q, falla_lista) ==
    IF falla_lista THEN <<>> ELSE ListarRemoto(rem, q)

\* escribir_csv(str(db_path), colegios_api) has returned g: its value is
\* dropped
TrasGuardarEspejo(g) ==
    [excepcion |-> FALSE, espejo |-> IF g.ok THEN "guardado" ELSE "no_guardado",
     escrito |-> g.escrito, archivo |-> g.archivo, subgrupos |-> g.subgrupos,
     fallo |-> g.fallo]

\* EspejoDe without "if not colegios_api: return": an empty list is saved too
EspejoSinRetorno(colegios_api, arch, sub, falla) ==
    IF falla.punto = "ruta"
    THEN [excepcion |-> TRUE, espejo |-> "excepcion", escrito |-> FALSE,
          archivo |-> arch, subgrupos |-> sub, fallo |-> TRUE]
    ELSE [TrasGuardarEspejo(
             escribir_csv(colegios_api, arch, sub,
                          IF falla.punto = "abrir" THEN falla ELSE SinFalla))
          EXCEPT !.espejo = IF colegios_api = <<>> THEN "nada" ELSE @,
                 !.fallo = @ \/ falla.punto = "listar"]

\* The try body of the mirror once the list has been fetched
EspejoDe(colegios_api, arch, sub, falla) ==
    IF colegios_api = <<>>
    THEN [excepcion |-> FALSE, espejo |-> "nada", escrito |-> FALSE,
          archivo |-> arch, subgrupos |-> sub, fallo |-> falla.punto = "listar"]
    ELSE IF falla.punto = "ruta"
    THEN [excepcion |-> TRUE, espejo |-> "excepcion", escrito |-> FALSE,
          archivo |-> arch, subgrupos |-> sub, fallo |-> TRUE]
    ELSE TrasGuardarEspejo(
             escribir_csv(colegios_api, arch, sub,
                          IF falla.punto = "abrir" THEN falla ELSE SinFalla))

\* The body of the try of _sincronizar_api_con_local.  excepcion: the body
\* raised; espejo: how far it went
CuerpoSincronizar(rem, arch, sub, falla) ==
    EspejoDe(obtener_colegios_api(rem, <<>>, falla.punto = "listar"), arch, sub, falla)

\* The mirror without its "except Exception: pass"
SincronizarSinExcept(rem, arch, sub, falla) ==
    CuerpoSincronizar(rem, arch, sub, falla)

\* "try: ... except Exception: pass"
_sincronizar_api_con_local(rem, arch, sub, falla) ==
    [CuerpoSincronizar(rem, arch, sub, falla) EXCEPT !.excepcion = FALSE]

\* return False before the request is made
RechazaApi(motivo, rem, arch, sub) ==
    [remoto |-> rem, archivo |-> arch, subgrupos |-> sub, resultado |-> FALSE,
     motivo |-> motivo, fallo |-> FALSE, llamada |-> FALSE, espejo |-> "nada",
     escrito |-> FALSE]

\* The request raised: "except Exception: return False"
FallaLlamada(rem, arch, sub) ==
    [remoto |-> rem, archivo |-> arch, subgrupos |-> sub, resultado |-> FALSE,
     motivo |-> "remoto", fallo |-> TRUE, llamada |-> FALSE, espejo |-> "nada",
     escrito |-> FALSE]

\* The request succeeded and left rem; s is what the mirror did afterwards.
\* An exception that leaves the mirror reaches the handler's own
\* "except Exception: return False".
TrasLlamada(rem, s) ==
    [remoto |-> rem, archivo |-> s.archivo, subgrupos |-> s.subgrupos,
     resultado |-> ~s.excepcion,
     motivo |-> IF s.excepcion THEN "espejo" ELSE "ok",
     fallo |-> s.fallo, llamada |-> TRUE, espejo |-> s.espejo,
     escrito |-> s.escrito]

agregar_colegio_api(rem, arch, sub, provincia_in, colegio_in, cantidad_in, anio_in, falla) ==
    LET provincia == Strip(provincia_in)
        colegio == Strip(colegio_in)
        cantidad == EnteroODefecto(Strip(cantidad_in))
        anio == EnteroODefecto(Strip(anio_in))
    IN IF provincia = <<>> \/ colegio = <<>>
       THEN RechazaApi("validacion", rem, arch, sub)
       ELSE IF ~cantidad.ok \/ ~anio.ok
       THEN RechazaApi("validacion", rem, arch, sub)
       ELSE IF cantidad.val < 0
       THEN RechazaApi("validacion", rem, arch, sub)
       ELSE IF anio.val < 1800 \/ anio.val > 2100
       THEN RechazaApi("validacion", rem, arch, sub)
       ELSE IF falla.punto = "llamada"
       THEN FallaLlamada(rem, arch, sub)
       ELSE TrasLlamada(
                CrearRemoto(rem, Colegio(provincia, colegio, cantidad.val, anio.val)),
                _sincronizar_api_con_local(
                    CrearRemoto(rem, Colegio(provincia, colegio, cantidad.val, anio.val)),
                    arch, sub, falla))


\* The record chosen among those the lookup returned: its position, or 0 when
\* the number typed is out of range or is not a number
SeleccionApi(encontrados, opcion_in) ==
    IF Len(encontrados) > 1
    THEN LET n == ParseInt(opcion_in) IN
         IF n.ok /\ 0 <= n.val - 1 /\ n.val - 1 < Len(encontrados)
         THEN n.val ELSE 0
    ELSE 1

SinCambios == [k \in {} |-> 0]

\* The dict cambios of editar_colegio_api, once every text has been accepted
Cambios(nueva_provincia, nuevo_colegio, nueva_cantidad_str, nuevo_anio_str) ==
    (IF nueva_provincia # <<>> THEN "Provincia" :> nueva_provincia ELSE SinCambios)
    @@ (IF nuevo_colegio # <<>> THEN "Colegio" :> nuevo_colegio ELSE SinCambios)
    @@ (IF nueva_cantidad_str # <<>>
        THEN "Cantidad de Estudiantes" :> ParseInt(nueva_cantidad_str).val
        ELSE SinCambios)
    @@ (IF nuevo_anio_str # <<>>
        THEN "Año de Creación" :> ParseInt(nuevo_anio_str).val
        ELSE SinCambios)

editar_colegio_api(rem, arch, sub, nombre_in, opcion_in, provincia_in, colegio_in, cantidad_in, anio_in, falla) ==
    LET nombre_buscar == Strip(nombre_in)
        encontrados == obtener_colegios_api(rem, nombre_buscar, FALSE)
        elegido == SeleccionApi(encontrados, opcion_in)
        id_colegio == IF "id" \in DOMAIN encontrados[elegido]
                      THEN encontrados[elegido]["id"] ELSE 0
        nueva_cantidad_str == Strip(cantidad_in)
        nuevo_anio_str == Strip(anio_in)
        anio == ParseInt(nuevo_anio_str)
        cambios == Cambios(Strip(provincia_in), Strip(colegio_in),
                           nueva_cantidad_str, nuevo_anio_str)
    IN IF nombre_buscar = <<>>
       THEN RechazaApi("sin_nombre", rem, arch, sub)
       ELSE IF encontrados = <<>>
       THEN RechazaApi("no_encontrado", rem, arch, sub)
       ELSE IF elegido = 0
       THEN RechazaApi("opcion", rem, arch, sub)
       ELSE IF id_colegio = 0
       THEN RechazaApi("sin_id", rem, arch, sub)
       ELSE IF nueva_cantidad_str # <<>> /\ ~ParseInt(nueva_cantidad_str).ok
       THEN RechazaApi("validacion", rem, arch, sub)
       ELSE IF nuevo_anio_str # <<>>
               /\ (~anio.ok \/ anio.val < 1800 \/ anio.val > 2100)
       THEN RechazaApi("validacion", rem, arch, sub)
       ELSE IF DOMAIN cambios = {}
       THEN RechazaApi("sin_cambios", rem, arch, sub)
       ELSE IF falla.punto = "llamada"
       THEN FallaLlamada(rem, arch, sub)
       ELSE TrasLlamada(
                ActualizarRemoto(rem, id_colegio, cambios),
                _sincronizar_api_con_local(
                    ActualizarRemoto(rem, id_colegio, cambios), arch, sub, falla))

borrar_colegio_api(rem, arch, sub, nombre_in, opcion_in, confirmar_in, falla) ==
    LET nombre_buscar == Strip(nombre_in)
        encontrados == obtener_colegios_api(rem, nombre_buscar, FALSE)
        elegido == SeleccionApi(encontrados, opcion_in)
        id_colegio == IF "id" \in DOMAIN encontrados[elegido]
                      THEN encontrados[elegido]["id"] ELSE 0
    IN IF nombre_buscar = <<>>
       THEN RechazaApi("sin_nombre", rem, arch, sub)
       ELSE IF encontrados = <<>>
       THEN RechazaApi("no_encontrado", rem, arch, sub)
       ELSE IF elegido = 0
       THEN RechazaApi("opcion", rem, arch, sub)
       ELSE IF id_colegio = 0
       THEN RechazaApi("sin_id", rem, arch, sub)
       ELSE IF lower(Strip(confirmar_in)) # <<"s">>
       THEN RechazaApi("cancelado", rem, arch, sub)
       ELSE IF falla.punto = "llamada"
       THEN FallaLlamada(rem, arch, sub)
       ELSE TrasLlamada(
                EliminarRemoto(rem, id_colegio),
                _sincronizar_api_con_local(
                    EliminarRemoto(rem, id_colegio), arch, sub, falla))

----------------------------------------------------------------------------
(* API mode: the branches of the menu loop of main.  The value the handler  *)
(* returns is dropped and the in-memory list is left alone.                 *)

OpsApi == {"agregar_api", "editar_api", "borrar_api"}

RamaApi(op, r) ==
    /\ remoto' = r.remoto
    /\ archivo' = r.archivo
    /\ subgrupos' = r.subgrupos
    /\ fallas' = IF r.fallo THEN fallas + 1 ELSE fallas
    /\ pasos' = IF r.motivo \in {"ok", "remoto", "espejo"} THEN pasos + 1 ELSE pasos
    /\ ultimo' = IF r.motivo \in {"ok", "remoto", "espejo"}
                 THEN [op |-> op, ok |-> r.resultado, escrito |-> r.escrito,
                       llamada |-> r.llamada, espejo |-> r.espejo]
                 ELSE ultimo
    /\ UNCHANGED <<colegios, MODO_API>>

\* A failure can be injected only into a run that reaches the request
InyectableApi(r0) ==
    IF r0.motivo = "ok" /\ fallas < MaxFallas THEN FallasApi ELSE {}

AgregarColegioApi ==
    /\ MODO_API
    /\ pasos < MaxPasos
    /\ Len(remoto) < MaxRemoto
    /\ \E provincia_in \in TextosProvincia, colegio_in \in TextosColegio,
          cantidad_in \in TextosCantidad, anio_in \in TextosAnio :
       \E r0 \in {agregar_colegio_api(remoto, archivo, subgrupos, provincia_in,
                                      colegio_in, cantidad_in, anio_in, SinFalla)} :
          \/ RamaApi("agregar_api", r0)
          \/ \E falla \in InyectableApi(r0) :
             \E r \in {agregar_colegio_api(remoto, archivo, subgrupos, provincia_in,
                                           colegio_in, cantidad_in, anio_in, falla)} :
                 r.fallo /\ RamaApi("agregar_api", r)

PideOpcionApi(nombre_in) ==
    Len(obtener_colegios_api(remoto, Strip(nombre_in), FALSE)) > 1

PideDatosApi(nombre_in, opcion_in) ==
    /\ Strip(nombre_in) # <<>>
    /\ obtener_colegios_api(remoto, Strip(nombre_in), FALSE) # <<>>
    /\ SeleccionApi(obtener_colegios_api(remoto, Strip(nombre_in), FALSE), opcion_in) # 0

EditarColegioApi ==
    /\ MODO_API
    /\ pasos < MaxPasos
    /\ \E nombre_in \in TextosBusqueda :
       \E opcion_in \in IF PideOpcionApi(nombre_in) THEN TextosOpcion ELSE {<<>>} :
       \E pide \in {PideDatosApi(nombre_in, opcion_in)} :
       \E provincia_in \in IF pide THEN TextosProvincia ELSE {<<>>},
          colegio_in \in IF pide THEN TextosColegio ELSE {<<>>},
          cantidad_in \in IF pide THEN TextosCantidad ELSE {<<>>},
          anio_in \in IF pide THEN TextosAnio ELSE {<<>>} :
       \E r0 \in {editar_colegio_api(remoto, archivo, subgrupos, nombre_in,
                                     opcion_in, provincia_in, colegio_in,
                                     cantidad_in, anio_in, SinFalla)} :
          \/ RamaApi("editar_api", r0)
          \/ \E falla \in InyectableApi(r0) :
             \E r \in {editar_colegio_api(remoto, archivo, subgrupos, nombre_in,
                                          opcion_in, provincia_in, colegio_in,
                                          cantidad_in, anio_in, falla)} :
                 r.fallo /\ RamaApi("editar_api", r)

BorrarColegioApi ==
    /\ MODO_API
    /\ pasos < MaxPasos
    /\ \E nombre_in \in TextosBusqueda :
       \E opcion_in \in IF PideOpcionApi(nombre_in) THEN TextosOpcion ELSE {<<>>} :
       \E pide \in {PideDatosApi(nombre_in, opcion_in)} :
       \E confirmar_in \in IF pide THEN TextosConfirmar ELSE {<<>>} :
       \E r0 \in {borrar_colegio_api(remoto, archivo, subgrupos, nombre_in,
                                     opcion_in, confirmar_in, SinFalla)} :
          \/ RamaApi("borrar_api", r0)
          \/ \E falla \in InyectableApi(r0) :
             \E r \in {borrar_colegio_api(remoto, archivo, subgrupos, nombre_in,
                                          opcion_in, confirmar_in, falla)} :
                 r.fallo /\ RamaApi("borrar_api", r)

----------------------------------------------------------------------------
(* API session: the mode was switched to the API either at once or after    *)
(* one record was added in local mode                                       *)

UnColegio == Colegio(<<"a", "/", "b">>, <<"X">>, 300, 1970)

InitApi ==
    /\ MODO_API = TRUE
    /\ remoto = <<>>
    /\ fallas = 0
    /\ pasos = 0
    /\ ultimo = [op |-> "inicio", ok |-> TRUE, escrito |-> TRUE]
    /\ \E lista \in {<<>>, <<UnColegio>>} :
       \E g \in {escribir_csv(lista, ArchivoCon(<<>>), [c \in Carpetas |-> DirVacio],
                              SinFalla)} :
          /\ colegios = lista
          /\ archivo = g.archivo
          /\ subgrupos = g.subgrupos

NextApi ==
    \/ AgregarColegioApi
    \/ EditarColegioApi
    \/ BorrarColegioApi

SpecApi == InitApi /\ [][NextApi]_vars

----------------------------------------------------------------------------
(* Record Store alone: a list of valid records is saved, then loaded back   *)

\* Valid records: province and name trimmed and not empty, two integers
RegistrosValidos ==
    {Colegio(provincia, <<"X">>, cantidad, anio) :
        provincia \in {<<"a", "/", "b">>, <<"a", " ", "b">>},
        cantidad \in {0 - 1, 0, 300},
        anio \in {0, 1970}}

ListasValidas == UNION {[1..n -> RegistrosValidos] : n \in 0..MaxColegios}

InitAlmacen ==
    /\ colegios \in ListasValidas
    /\ MODO_API = FALSE
    /\ archivo = ArchivoCon(<<>>)
    /\ subgrupos = [c \in Carpetas |-> DirVacio]
    /\ remoto = <<>>
    /\ fallas = 0
    /\ pasos = 0
    /\ ultimo = [op |-> "inicio", ok |-> TRUE, escrito |-> TRUE]

\* escribir_csv(db_path, colegios), with or without a failure
Guardar ==
    /\ ultimo.op = "inicio"
    /\ \E falla \in Fallas :
       \E g \in {escribir_csv(colegios, archivo, subgrupos, falla)} :
          /\ falla = SinFalla \/ g.fallo
          /\ archivo' = g.archivo
          /\ subgrupos' = g.subgrupos
          /\ fallas' = IF g.fallo THEN fallas + 1 ELSE fallas
          /\ pasos' = pasos + 1
          /\ ultimo' = [op |-> "guardar", ok |-> g.ok, escrito |-> g.escrito]
    /\ UNCHANGED <<colegios, MODO_API, remoto>>

\* colegios = leer_csv(db_path)
Cargar ==
    /\ ultimo.op = "guardar"
    /\ colegios' = leer_csv(archivo)
    /\ pasos' = pasos + 1
    /\ ultimo' = [ultimo EXCEPT !.op = "cargar"]
    /\ UNCHANGED <<MODO_API, archivo, subgrupos, remoto, fallas>>

NextAlmacen ==
    \/ Guardar
    \/ Cargar

SpecAlmacen == InitAlmacen /\ [][NextAlmacen]_vars

----------------------------------------------------------------------------
(* What the disk holds, for the properties below *)

\* How many times x occurs in the sequence s
Veces(x, s) == Cardinality({i \in 1..Len(s) : s[i] = x})

\* The records the authoritative file loads to
Guardados == leer_csv(archivo)

\* The last call of escribir_csv was made by a handler and returned True
UltimoGuardadoBien == ultimo.op # "inicio" /\ ultimo.ok

\* The names of the bucket files a synchronization of lista writes in carpeta
NombresEscritos(carpeta, lista) ==
    {limpiar_nombre_archivo(Clave(carpeta, lista[i])) : i \in 1..Len(lista)}

\* The rows of one bucket file of the folder dir (none if there is no file)
FilasEn(dir, nombre) ==
    IF nombre \in DOMAIN dir THEN dir[nombre].filas ELSE <<>>

\* How many times the row occurs in the files nombres of the folder dir
VecesEnCarpeta(fila, dir, nombres) ==
    Cardinality({p \in UNION {{<<n, i>> : i \in 1..Len(FilasEn(dir, n))} : n \in nombres} :
                    dir[p[1]].filas[p[2]] = fila})

\* Every row found in the authoritative file or in a file of the folder dir
FilasPresentes(dir) ==
    {archivo.filas[i] : i \in 1..Len(archivo.filas)}
    \cup UNION {{dir[n].filas[i] : i \in 1..Len(dir[n].filas)} : n \in DOMAIN dir}

----------------------------------------------------------------------------
(* Record Store and Hierarchical Projector: properties of a save *)

\* C1 (as claimed): whenever the authoritative file has been written
\* completely, escribir_csv returns True, whether or not the projection
\* step succeeded.
C1_ProyeccionNoHaceFallar == ultimo.escrito => ultimo.ok

\* C2 (as claimed): a save that reports failure leaves the authoritative file
\* with exactly the content it had before the save started.
C2_FalloDejaArchivoIntacto == [][~ultimo'.ok => archivo' = archivo]_vars

\* C3 (as claimed): after a successful save, in each of the three folders
\* every record of the saved collection is in exactly one of the bucket files
\* that save wrote, as many times as in the collection, also when two
\* province strings clean to the same file name.
C3_CadaRegistroEnUnArchivo ==
    UltimoGuardadoBien =>
        \A carpeta \in Carpetas : \A i \in 1..Len(Guardados) :
            LET fila == FilaDe(Guardados[i])
                nombres == NombresEscritos(carpeta, Guardados)
            IN \E n \in nombres :
                  /\ Veces(fila, FilasEn(subgrupos[carpeta], n)) = Veces(fila, archivo.filas)
                  /\ \A m \in nombres \ {n} :
                        Veces(fila, FilasEn(subgrupos[carpeta], m)) = 0

ClavesDeArchivo(carpeta, f) ==
    {Clave(carpeta, c) : c \in {leer_csv(f)[i] : i \in 1..Len(leer_csv(f))}}

\* C5 (as claimed): a synchronization leaves every bucket file whose key does
\* not occur in the synchronized collection on disk with its old content.
C5_ArchivosAjenosIntactos ==
    [][\A carpeta \in Carpetas : \A n \in DOMAIN subgrupos[carpeta] :
          (ClavesDeArchivo(carpeta, subgrupos[carpeta][n])
              \cap {Clave(carpeta, leer_csv(archivo')[i]) : i \in 1..Len(leer_csv(archivo'))}
              = {})
          => /\ n \in DOMAIN subgrupos'[carpeta]
             /\ subgrupos'[carpeta][n] = subgrupos[carpeta][n]]_vars

----------------------------------------------------------------------------
(* Local mode: properties of the handlers, on what each of them returns and *)
(* leaves behind when it is run from a state the session reaches            *)

\* C8 (as claimed): a local create or edit that ends in a validation failure
\* leaves the in-memory collection and the authoritative file exactly as
\* they were before the operation.
C8_ValidacionSinMutacion ==
    /\ \A provincia_in \in TextosProvincia, colegio_in \in TextosColegio,
          cantidad_in \in TextosCantidad, anio_in \in TextosAnio :
          \A r \in {agregar_colegio(colegios, archivo, subgrupos, provincia_in,
                                    colegio_in, cantidad_in, anio_in, SinFalla)} :
             r.motivo = "validacion" => r.colegios = colegios /\ r.archivo = archivo
    /\ \A nombre_in \in TextosBusqueda, opcion_in \in TextosOpcion,
          provincia_in \in TextosProvincia, colegio_in \in TextosColegio,
          cantidad_in \in TextosCantidad, anio_in \in TextosAnio :
          \A r \in {editar_colegio(colegios, archivo, subgrupos, nombre_in,
                                   opcion_in, provincia_in, colegio_in,
                                   cantidad_in, anio_in, SinFalla)} :
             r.motivo = "validacion" => r.colegios = colegios /\ r.archivo = archivo

\* The rows of the authoritative file after a handler (despues) are the
\* rows of the list the handler was given (antes) with its one change
ColeccionActualizada(op, antes, despues) ==
    CASE op = "agregar" -> /\ Len(despues) = Len(antes) + 1
                           /\ SubSeq(despues, 1, Len(antes)) = antes
      [] op = "editar" -> /\ Len(despues) = Len(antes)
                          /\ Cardinality({i \in 1..Len(antes) : despues[i] # antes[i]}) <= 1
      [] op = "borrar" -> \E i \in 1..Len(antes) : despues = Quitar(antes, i)

\* In each folder the bucket file of every record of lista exists, holds the
\* rows of one bucket of lista that cleans to its name and nothing else, and
\* (no two buckets of por_estudiantes or por_año share a name) holds the record
ProyeccionRegenerada(lista, sub) ==
    \A carpeta \in Carpetas : \A i \in 1..Len(lista) :
        LET n == limpiar_nombre_archivo(Clave(carpeta, lista[i]))
            filas == FilasEn(sub[carpeta], n)
        IN /\ n \in DOMAIN sub[carpeta]
           /\ sub[carpeta][n].cabecera
           /\ \E k \in 1..Len(lista) :
                 /\ limpiar_nombre_archivo(Clave(carpeta, lista[k])) = n
                 /\ filas = FilasDe(Grupo(carpeta, lista, Clave(carpeta, lista[k])))
           /\ carpeta # "por_provincia" => Veces(FilaDe(lista[i]), filas) > 0

\* C10: in local mode every create, edit or delete that returns True has
\* written the full updated collection to the authoritative file and has
\* regenerated the bucket files of the three folders from that collection.
C10_ExitoLocalGuardaTodo ==
    [][(pasos' = pasos + 1 /\ ultimo'.ok)
       => /\ archivo'.existe /\ archivo'.cabecera
          /\ \A antes \in {FilasDe(colegios)} :
                ColeccionActualizada(ultimo'.op, antes, archivo'.filas)
          /\ \A guardados \in {leer_csv(archivo')} :
                ProyeccionRegenerada(guardados, subgrupos')]_vars

\* An edit of a list of two records has returned True, and the session has
\* loaded the two records back
C10_Testigo ==
    /\ ultimo.op = "editar"
    /\ ultimo.ok
    /\ Len(colegios) = 2
    /\ colegios = Guardados

----------------------------------------------------------------------------
(* Record Store: the round trip *)

\* C9: loading the file a successful save of valid records produced returns
\* the same records, in the same order and with the same multiplicities.
C9_IdaYVuelta ==
    [][(ultimo.op = "guardar" /\ ultimo.ok /\ ultimo'.op = "cargar")
       => colegios' = colegios]_vars

\* Two records, the first with a negative count, were saved and loaded back
C9_Testigo ==
    /\ ultimo.op = "cargar"
    /\ ultimo.ok
    /\ Len(colegios) = 2
    /\ colegios[1]["Cantidad de Estudiantes"] < 0
    /\ colegios[2] # colegios[1]

----------------------------------------------------------------------------
(* API mode: properties of the mirror *)

\* C6 (as claimed): after every successful remote create, update or delete
\* the local authoritative file holds exactly the four fields of every
\* record the remote list returns, and the projections hold them too, also
\* when the remote records carry the id the service assigned.
C6_EspejoReflejaRemoto ==
    (ultimo.op \in OpsApi /\ ultimo.ok)
        => /\ archivo = ArchivoCon(FilasDe(SinId(remoto)))
           /\ ProyeccionRegenerada(SinId(remoto), subgrupos)

\* C7: a remote create, update or delete returns True exactly when its
\* request succeeded, whether the mirror then fetched nothing, saved, failed
\* to save or raised; no exception of the mirror reaches the handler.
C7_ResultadoSinEspejo ==
    ultimo.op \in OpsApi => (ultimo.ok <=> ultimo.llamada)

\* A request succeeded, the mirror raised, and the handler returned True
C7_Testigo ==
    /\ ultimo.op \in OpsApi
    /\ ultimo.llamada
    /\ ultimo.ok
    /\ ultimo.espejo = "excepcion"

----------------------------------------------------------------------------
(* Record Store and reverse read alone: one file is read                    *)

MaxFilas == 3         \* most data rows of a file that is read

\* Rows as csv.DictReader yields them (a blank line is no row): a row that
\* is taken as it is, one taken after trimming with both numbers blank, one
\* with a blank province, one whose count is no integer, one with columns
\* missing, one with a fifth field
FilasDePrueba ==
    {<<<<"a">>, <<"X">>, <<"3", "0", "0">>, <<"1", "9", "7", "0">>>>,
     <<<<" ", "Á">>, <<"Y", " ">>, <<>>, <<" ">>>>,
     <<<<" ">>, <<"X">>, <<"1">>, <<"1">>>>,
     <<<<"a">>, <<"X">>, <<"x">>, <<"1">>>>,
     <<<<"a">>, <<"X">>>>,
     <<<<"a">>, <<"Y">>, <<"-", "1">>, <<" ", "+", "1">>, <<"z">>>>}

ArchivosDePrueba ==
    {NoExiste, ArchivoVacio}
    \cup {ArchivoCon(filas) : filas \in UNION {[1..n -> FilasDePrueba] : n \in 0..MaxFilas}}

\* The row loop of leer_desde_subgrupo: the same body as in leer_csv, without
\* its inner "except Exception"; None.strip() on a row with columns missing
\* ends the loop, and "except Exception: pass" returns what was appended
RECURSIVE LeerFilasSubgrupo(_)
LeerFilasSubgrupo(filas) ==
    IF filas = <<>> THEN <<>>
    ELSE IF Len(Head(filas)) < 4 THEN <<>>
    ELSE LET r == LeerFila(Head(filas)) IN
         IF r.ok THEN <<r.colegio>> \o LeerFilasSubgrupo(Tail(filas))
         ELSE LeerFilasSubgrupo(Tail(filas))

\* leer_desde_subgrupo(ruta_subgrupo); falla_abrir: open() raises
leer_desde_subgrupo(f, falla_abrir) ==
    IF ~f.existe THEN <<>>
    ELSE IF falla_abrir THEN <<>>
    ELSE IF ~f.cabecera THEN <<>>
    ELSE LeerFilasSubgrupo(f.filas)

\* A load that reports an error whenever it has nothing to return
CargaErrorSiVacia(f, falla_abrir) ==
    [colegios |-> leer_csv(f), invalidas |-> filas_invalidas(f),
     error |-> leer_csv(f) = <<>>]

\* leer_csv(ruta_csv) with what it reports: the list it returns, the count
\* of its message "Se omitieron ..." (0: no message), and whether it printed
\* "Error al leer el archivo CSV"; falla_abrir: open() raises
Carga(f, falla_abrir) ==
    IF f.existe /\ falla_abrir
    THEN [colegios |-> <<>>, invalidas |-> 0, error |-> TRUE]
    ELSE [colegios |-> leer_csv(f), invalidas |-> filas_invalidas(f),
          error |-> FALSE]

InitLectura ==
    /\ colegios = <<>>
    /\ MODO_API = FALSE
    /\ archivo \in ArchivosDePrueba
    /\ subgrupos = [c \in Carpetas |-> DirVacio]
    /\ remoto = <<>>
    /\ fallas = 0
    /\ pasos = 0
    /\ ultimo = [op |-> "inicio", invalidas |-> 0, error |-> FALSE]

\* colegios = leer_csv(ruta)
LeerCsv ==
    /\ ultimo.op = "inicio"
    /\ \E falla_abrir \in BOOLEAN :
       \E r \in {Carga(archivo, falla_abrir)} :
          /\ falla_abrir => archivo.existe
          /\ colegios' = r.colegios
          /\ fallas' = IF falla_abrir THEN fallas + 1 ELSE fallas
          /\ ultimo' = [op |-> "leer_csv", invalidas |-> r.invalidas,
                        error |-> r.error]
    /\ pasos' = pasos + 1
    /\ UNCHANGED <<MODO_API, archivo, subgrupos, remoto>>

\* colegios = leer_desde_subgrupo(ruta)
LeerDesdeSubgrupo ==
    /\ ultimo.op = "inicio"
    /\ \E falla_abrir \in BOOLEAN :
          /\ falla_abrir => archivo.existe
          /\ colegios' = leer_desde_subgrupo(archivo, falla_abrir)
          /\ fallas' = IF falla_abrir THEN fallas + 1 ELSE fallas
    /\ pasos' = pasos + 1
    /\ ultimo' = [op |-> "leer_desde_subgrupo", invalidas |-> 0, error |-> FALSE]
    /\ UNCHANGED <<MODO_API, archivo, subgrupos, remoto>>

NextLectura ==
    \/ LeerCsv
    \/ LeerDesdeSubgrupo

SpecLectura == InitLectura /\ [][NextLectura]_vars

----------------------------------------------------------------------------
(* Record Store: properties of a load                                       *)

\* A row the load is to return: province and name not blank once trimmed,
\* each number blank or an integer
FilaAceptable(fila) ==
    /\ Len(fila) >= 4
    /\ Strip(fila[1]) # <<>>
    /\ Strip(fila[2]) # <<>>
    /\ \A k \in 3..4 : Strip(fila[k]) = <<>> \/ ParseInt(fila[k]).ok

\* The value of a numeric field of an acceptable row
NumeroDe(texto) == IF Strip(texto) = <<>> THEN 0 ELSE ParseInt(texto).val

\* The record an acceptable row stands for
RegistroDe(fila) ==
    Colegio(Strip(fila[1]), Strip(fila[2]), NumeroDe(fila[3]), NumeroDe(fila[4]))

\* The subsequence of the acceptable rows, as records
Aceptadas(filas) ==
    [i \in 1..Len(SelectSeq(filas, FilaAceptable)) |->
        RegistroDe(SelectSeq(filas, FilaAceptable)[i])]

\* C11: a load of a readable file returns, in file order, exactly the rows
\* whose trimmed province and name are not empty and whose two numbers are
\* blank (read as 0) or integers; every other row is skipped and counted, so
\* the count is the number of data rows minus the number of records returned,
\* and a bad row neither fails the load nor hides the valid rows after it.
C11_CargaFilaPorFila ==
    [][(ultimo'.op = "leer_csv" /\ fallas' = fallas /\ archivo.cabecera)
       => /\ colegios' = Aceptadas(archivo.filas)
          /\ ultimo'.invalidas = Len(archivo.filas) - Len(colegios')]_vars

\* A load has skipped a row with columns missing and a row with a bad count
\* and has returned the valid row that follows them
C11_Testigo ==
    /\ ultimo.op = "leer_csv"
    /\ Len(archivo.filas) = 3
    /\ Len(archivo.filas[1]) < 4
    /\ Len(archivo.filas[2]) >= 4
    /\ ~ParseInt(archivo.filas[2][3]).ok
    /\ ultimo.invalidas = 2
    /\ Len(colegios) = 1
    /\ colegios[1] = RegistroDe(archivo.filas[3])

\* C12: loading a missing file, or a file with a header and no data rows,
\* returns the empty collection, reports no skipped row and no error.
C12_SinArchivoOSinFilas ==
    [][(ultimo'.op = "leer_csv" /\ fallas' = fallas
        /\ (~archivo.existe \/ (archivo.cabecera /\ archivo.filas = <<>>)))
       => /\ colegios' = <<>>
          /\ ultimo'.invalidas = 0
          /\ ~ultimo'.error]_vars

\* A missing file has been loaded
C12_Testigo ==
    /\ ultimo.op = "leer_csv"
    /\ ~archivo.existe
    /\ colegios = <<>>

\* C17 (as claimed): for every file content the reverse read of a bucket
\* file returns the record sequence the authoritative loader returns for
\* the same content, rows with columns missing included.
C17_LecturaInversaIgual ==
    [][ultimo'.op = "leer_desde_subgrupo" /\ fallas' = fallas
       => colegios' = leer_csv(archivo)]_vars

----------------------------------------------------------------------------
(* Hierarchical Projector alone: a list of records is projected onto an     *)
(* empty tree, by the whole synchronization or by one organizar_por_*       *)

MaxProyectados == 2   \* longest list projected (besides the scenario list)

ConteosLimite == {250, 300, 499, 500, 699, 700}

AniosLimite == {1969, 1970, 1979, 1980, 1989, 1990, 1999, 2000}

\* A record as a caller may pass it, without the key "Provincia"
SinProvincia ==
    ("Colegio" :> <<"X">>) @@ ("Cantidad de Estudiantes" :> 0)
        @@ ("Año de Creación" :> 1970)

\* Records on both sides of every limit of the two numeric groupings
RegistrosLimite ==
    {Colegio(<<"a">>, <<"X">>, n, 1970) : n \in ConteosLimite}
    \cup {Colegio(<<"a">>, <<"Y">>, 0, y) : y \in AniosLimite}

\* The counts 250, 300, 499, 500, 699, 700 in this order
EscenarioConteos ==
    <<Colegio(<<"a">>, <<"X">>, 250, 1970), Colegio(<<"a">>, <<"X">>, 300, 1970),
      Colegio(<<"a">>, <<"X">>, 499, 1970), Colegio(<<"a">>, <<"X">>, 500, 1970),
      Colegio(<<"a">>, <<"X">>, 699, 1970), Colegio(<<"a">>, <<"X">>, 700, 1970)>>

ListasProyectadas ==
    UNION {[1..n -> RegistrosLimite \cup {SinProvincia}] : n \in 0..MaxProyectados}
    \cup {EscenarioConteos}

InitProyeccion ==
    /\ colegios \in ListasProyectadas
    /\ MODO_API = FALSE
    /\ archivo = ArchivoCon(<<>>)
    /\ subgrupos = [c \in Carpetas |-> DirVacio]
    /\ remoto = <<>>
    /\ fallas = 0
    /\ pasos = 0
    /\ ultimo = [op |-> "inicio", carpeta |-> "ninguna", ok |-> TRUE]

\* sincronizar_estructura_jerarquica(colegios, ruta_db_central); ok: it
\* returned, ~ok: it raised
Sincronizar ==
    /\ ultimo.op = "inicio"
    /\ \E s \in {sincronizar_estructura_jerarquica(colegios, subgrupos, SinFalla)} :
          /\ subgrupos' = s.sub
          /\ ultimo' = [op |-> "sincronizar", carpeta |-> "todas", ok |-> s.ok]
    /\ pasos' = pasos + 1
    /\ UNCHANGED <<colegios, MODO_API, archivo, remoto, fallas>>

\* organizar_por_provincia / _estudiantes / _año (colegios, ruta_db_central)
OrganizarPor ==
    /\ ultimo.op = "inicio"
    /\ \E carpeta \in Carpetas :
       \E o \in {organizar(carpeta, colegios, subgrupos[carpeta], 0)} :
          /\ subgrupos' = [subgrupos EXCEPT ![carpeta] = o.dir]
          /\ ultimo' = [op |-> "organizar", carpeta |-> carpeta, ok |-> o.ok]
    /\ pasos' = pasos + 1
    /\ UNCHANGED <<colegios, MODO_API, archivo, remoto, fallas>>

NextProyeccion ==
    \/ Sincronizar
    \/ OrganizarPor

SpecProyeccion == InitProyeccion /\ [][NextProyeccion]_vars

----------------------------------------------------------------------------
(* Hierarchical Projector: properties of the groupings                      *)

\* The last step projected the collection onto the folder and returned
Proyectada(carpeta) ==
    /\ ultimo.op \in {"sincronizar", "organizar"}
    /\ ultimo.carpeta \in {"todas", carpeta}
    /\ ultimo.ok

CubosEstudiantes == {Menos_300, R300_499, R500_699, R700_o_mas}

\* The range of counts each of the four files stands for
EnRangoEstudiantes(nombre, n) ==
    CASE nombre = Menos_300 -> n < 300
      [] nombre = R300_499 -> 300 <= n /\ n < 500
      [] nombre = R500_699 -> 500 <= n /\ n < 700
      [] nombre = R700_o_mas -> n >= 700

CubosAnio == {Antes_1970, D1970_1979, D1980_1989, D1990_1999, D2000_o_despues}

\* The range of years each of the five files stands for
EnRangoAnio(nombre, y) ==
    CASE nombre = Antes_1970 -> y < 1970
      [] nombre = D1970_1979 -> 1970 <= y /\ y < 1980
      [] nombre = D1980_1989 -> 1980 <= y /\ y < 1990
      [] nombre = D1990_1999 -> 1990 <= y /\ y < 2000
      [] nombre = D2000_o_despues -> y >= 2000

\* C13: the projection by student count puts every record in exactly one of
\* four files by its count n: n < 300, 300 <= n < 500, 500 <= n < 700,
\* n >= 700, so that 300, 500 and 700 each open a range.
C13_CuatroRangosDeEstudiantes ==
    Proyectada("por_estudiantes") =>
        /\ DOMAIN subgrupos["por_estudiantes"] \subseteq CubosEstudiantes
        /\ \A i \in 1..Len(colegios) : \A nombre \in CubosEstudiantes :
              Veces(FilaDe(colegios[i]), FilasEn(subgrupos["por_estudiantes"], nombre))
                  = IF EnRangoEstudiantes(nombre, colegios[i]["Cantidad de Estudiantes"])
                    THEN Veces(colegios[i], colegios) ELSE 0

\* The counts 250, 300, 499, 500, 699, 700 were projected and gave the four
\* files {250}, {300, 499}, {500, 699}, {700}
C13_Testigo ==
    /\ Proyectada("por_estudiantes")
    /\ colegios = EscenarioConteos
    /\ FilasEn(subgrupos["por_estudiantes"], Menos_300) = FilasDe(SubSeq(colegios, 1, 1))
    /\ FilasEn(subgrupos["por_estudiantes"], R300_499) = FilasDe(SubSeq(colegios, 2, 3))
    /\ FilasEn(subgrupos["por_estudiantes"], R500_699) = FilasDe(SubSeq(colegios, 4, 5))
    /\ FilasEn(subgrupos["por_estudiantes"], R700_o_mas) = FilasDe(SubSeq(colegios, 6, 6))

\* C14: the projection by founding decade puts every record in exactly one
\* of five files by its year y: y < 1970, 1970 <= y < 1980, 1980 <= y < 1990,
\* 1990 <= y < 2000, y >= 2000, so that 1970, 1980, 1990 and 2000 each open
\* a range.
C14_CincoRangosDeAnio ==
    Proyectada("por_año") =>
        /\ DOMAIN subgrupos["por_año"] \subseteq CubosAnio
        /\ \A i \in 1..Len(colegios) : \A nombre \in CubosAnio :
              Veces(FilaDe(colegios[i]), FilasEn(subgrupos["por_año"], nombre))
                  = IF EnRangoAnio(nombre, colegios[i]["Año de Creación"])
                    THEN Veces(colegios[i], colegios) ELSE 0

\* The years 1999 and 2000 were projected and went to two files
C14_Testigo ==
    /\ Proyectada("por_año")
    /\ Len(colegios) = 2
    /\ colegios[1]["Año de Creación"] = 1999
    /\ colegios[2]["Año de Creación"] = 2000
    /\ FilasEn(subgrupos["por_año"], D1990_1999) = FilasDe(SubSeq(colegios, 1, 1))
    /\ FilasEn(subgrupos["por_año"], D2000_o_despues) = FilasDe(SubSeq(colegios, 2, 2))

\* C15 (as claimed): a synchronization of a collection with a record that
\* has no province returns without raising, that record is in the file of
\* the fallback bucket, and every record is in its file in every folder.
C15_SinProvinciaNoFalla ==
    (ultimo.op = "sincronizar" /\ \E i \in 1..Len(colegios) : colegios[i] = SinProvincia)
        => /\ ultimo.ok
           /\ Veces(FilaDe(SinProvincia), FilasEn(subgrupos["por_provincia"], Desconocida)) > 0
           /\ \A carpeta \in Carpetas : \A i \in 1..Len(colegios) :
                 Veces(FilaDe(colegios[i]),
                       FilasEn(subgrupos[carpeta],
                               limpiar_nombre_archivo(Clave(carpeta, colegios[i])))) > 0

----------------------------------------------------------------------------
(* The file-name sanitizer alone: one bucket key is sanitized               *)

MaxNombre == 2        \* longest bucket key sanitized

\* The nine characters replaced, the two kinds of whitespace, and a letter
LetrasDeClave == Reemplazados \cup Blancos \cup {"a"}

ClavesDePrueba == UNION {[1..n -> LetrasDeClave] : n \in 0..MaxNombre}

InitNombres ==
    /\ colegios = <<>>
    /\ MODO_API = FALSE
    /\ archivo = ArchivoCon(<<>>)
    /\ subgrupos = [c \in Carpetas |-> DirVacio]
    /\ remoto = <<>>
    /\ fallas = 0
    /\ pasos = 0
    /\ ultimo \in {[op |-> "inicio", nombre |-> k, resultado |-> <<>>] : k \in ClavesDePrueba}

\* nombre_archivo = limpiar_nombre_archivo(clave)
LimpiarNombreArchivo ==
    /\ ultimo.op = "inicio"
    /\ ultimo' = [op |-> "limpiar_nombre_archivo", nombre |-> ultimo.nombre,
                  resultado |-> limpiar_nombre_archivo(ultimo.nombre)]
    /\ pasos' = pasos + 1
    /\ UNCHANGED <<colegios, MODO_API, archivo, subgrupos, remoto, fallas>>

NextNombres == LimpiarNombreArchivo

SpecNombres == InitNombres /\ [][NextNombres]_vars

\* C16: the sanitized name of a bucket key holds none of the characters
\* / \ : * ? " < > |, neither starts nor ends with whitespace and is never
\* empty: a key with nothing but whitespace gives the fallback name.
C16_NombreDeArchivoSeguro ==
    ultimo.op = "limpiar_nombre_archivo" =>
        /\ \A i \in 1..Len(ultimo.resultado) : ultimo.resultado[i] \notin Reemplazados
        /\ ultimo.resultado # <<>>
        /\ ultimo.resultado[1] \notin Blancos
        /\ ultimo.resultado[Len(ultimo.resultado)] \notin Blancos
        /\ (\A i \in 1..Len(ultimo.nombre) : ultimo.nombre[i] \in Blancos)
              => ultimo.resultado = SinNombre

\* A key of a space and a tab was sanitized to the fallback name
C16_Testigo ==
    /\ ultimo.op = "limpiar_nombre_archivo"
    /\ ultimo.nombre = <<" ", "\t">>
    /\ ultimo.resultado = SinNombre

----------------------------------------------------------------------------
(* Query Engine: busqueda.py                                                *)

\* dict.get(campo, defecto)
Campo(c, campo, defecto) == IF campo \in DOMAIN c THEN c[campo] ELSE defecto

\* buscar_colegio_recursivo(colegios, nombre, indice, resultados); indice is
\* 1-based here
RECURSIVE buscar_colegio_recursivo(_, _, _, _)
buscar_colegio_recursivo(lista, nombre, indice, resultados) ==
    IF indice > Len(lista) THEN resultados
    ELSE LET colegio_actual == lista[indice]
             nombre_colegio == normalizar(Campo(colegio_actual, "Colegio", <<>>))
             nombre_buscar == normalizar(nombre)
         IN buscar_colegio_recursivo(lista, nombre, indice + 1,
                IF Contiene(nombre_colegio, nombre_buscar)
                THEN Append(resultados, colegio_actual) ELSE resultados)

\* A search that compares the texts as they are typed and stored
BuscarSinNormalizar(lista, nombre) ==
    IF lista = <<>> \/ nombre = <<>> THEN <<>>
    ELSE SelectSeq(lista, LAMBDA c : Contiene(c["Colegio"], nombre))

buscar_colegio(lista, nombre) ==
    IF lista = <<>> \/ nombre = <<>> THEN <<>>
    ELSE buscar_colegio_recursivo(lista, nombre, 1, <<>>)

\* A filter that leaves out the first of the records it finds
FiltrarSinLaPrimera(lista, provincia) ==
    IF lista = <<>> \/ provincia = <<>> THEN <<>>
    ELSE LET r == SelectSeq(lista, LAMBDA c :
                      Contiene(normalizar(c["Provincia"]), normalizar(provincia)))
         IN IF r = <<>> THEN r ELSE Tail(r)

filtrar_por_provincia(lista, provincia) ==
    IF lista = <<>> \/ provincia = <<>> THEN <<>>
    ELSE SelectSeq(lista, LAMBDA c :
             Contiene(normalizar(Campo(c, "Provincia", <<>>)), normalizar(provincia)))

\* A range filter that leaves its upper end out
FiltrarHastaAntesDelMaximo(lista, minimo, maximo) ==
    SelectSeq(lista, LAMBDA c : /\ minimo <= c["Cantidad de Estudiantes"]
                                /\ c["Cantidad de Estudiantes"] < maximo)

filtrar_por_rango_estudiantes(lista, minimo, maximo) ==
    IF lista = <<>> THEN <<>>
    ELSE SelectSeq(lista, LAMBDA c :
             /\ minimo <= Campo(c, "Cantidad de Estudiantes", 0)
             /\ Campo(c, "Cantidad de Estudiantes", 0) <= maximo)

\* filtrar_por_rango_año
filtrar_por_rango_anio(lista, minimo, maximo) ==
    IF lista = <<>> THEN <<>>
    ELSE SelectSeq(lista, LAMBDA c :
             /\ minimo <= Campo(c, "Año de Creación", 0)
             /\ Campo(c, "Año de Creación", 0) <= maximo)

\* The call the menu option op makes with what the user typed
Consulta(op, lista, texto, minimo, maximo) ==
    CASE op = "buscar_colegio" -> buscar_colegio(lista, texto)
      [] op = "filtrar_por_provincia" -> filtrar_por_provincia(lista, texto)
      [] op = "filtrar_por_rango_estudiantes" ->
            filtrar_por_rango_estudiantes(lista, minimo, maximo)
      [] op = "filtrar_por_rango_año" -> filtrar_por_rango_anio(lista, minimo, maximo)

----------------------------------------------------------------------------
(* Query Engine alone: a collection is queried, and the same query is put   *)
(* to its result                                                            *)

MaxConsultados == 2   \* longest collection queried

RegistrosConsulta ==
    {Colegio(<<"a">>, <<"X", "Á">>, 300, 1970),
     Colegio(<<"Á", " ", "b">>, <<"Y", " ", "S">>, 500, 1980),
     Colegio(<<"b">>, <<"x", "a", "y">>, 0, 2000),
     Colegio(<<"S">>, <<"s">>, 700, 0)}

ListasConsulta == UNION {[1..n -> RegistrosConsulta] : n \in 0..MaxConsultados}

\* What the user types as a name or a province
TextosConsulta == {<<>>, <<" ">>, <<"x">>, <<"A", " ">>, <<"á">>, <<"z">>, <<"y", " ", "s">>}

\* What the user types as the ends of a range
LimitesEstudiantes == {0, 300, 500}

LimitesAnio == {1970, 1980, 2000}

InitConsultas ==
    /\ colegios \in ListasConsulta
    /\ MODO_API = FALSE
    /\ archivo = ArchivoCon(<<>>)
    /\ subgrupos = [c \in Carpetas |-> DirVacio]
    /\ remoto = <<>>
    /\ fallas = 0
    /\ pasos = 0
    /\ ultimo = [op |-> "inicio", texto |-> <<>>, minimo |-> 0, maximo |-> 0,
                 resultado |-> <<>>, veces |-> 0]

\* One query on the collection: the call and what it returned
Consultada(op, texto, minimo, maximo) ==
    /\ ultimo.op = "inicio"
    /\ ultimo' = [op |-> op, texto |-> texto, minimo |-> minimo, maximo |-> maximo,
                  resultado |-> Consulta(op, colegios, texto, minimo, maximo),
                  veces |-> 1]
    /\ pasos' = pasos + 1
    /\ UNCHANGED <<colegios, MODO_API, archivo, subgrupos, remoto, fallas>>

BuscarColegio == \E nombre \in TextosConsulta : Consultada("buscar_colegio", nombre, 0, 0)

FiltrarPorProvincia == \E provincia \in TextosConsulta : Consultada("filtrar_por_provincia", provincia, 0, 0)

FiltrarPorRangoEstudiantes == \E minimo \in LimitesEstudiantes, maximo \in LimitesEstudiantes : Consultada("filtrar_por_rango_estudiantes", <<>>, minimo, maximo)

FiltrarPorRangoAnio == \E minimo \in LimitesAnio, maximo \in LimitesAnio : Consultada("filtrar_por_rango_año", <<>>, minimo, maximo)

\* The same call with the same argument on the list the call returned
RepetirConsulta ==
    /\ ultimo.veces = 1
    /\ ultimo' = [ultimo EXCEPT
                    !.resultado = Consulta(ultimo.op, ultimo.resultado, ultimo.texto,
                                           ultimo.minimo, ultimo.maximo),
                    !.veces = 2]
    /\ pasos' = pasos + 1
    /\ UNCHANGED <<colegios, MODO_API, archivo, subgrupos, remoto, fallas>>

NextConsultas ==
    \/ BuscarColegio
    \/ FiltrarPorProvincia
    \/ FiltrarPorRangoEstudiantes
    \/ FiltrarPorRangoAnio
    \/ RepetirConsulta

SpecConsultas == InitConsultas /\ [][NextConsultas]_vars

----------------------------------------------------------------------------
(* Query Engine: properties                                                 *)

\* C18: a search by name returns, in input order, exactly the records whose
\* normalized name contains the normalized query; an empty query or an empty
\* collection gives the empty result.
C18_BusquedaPorNombre ==
    (ultimo.op = "buscar_colegio" /\ ultimo.veces = 1) =>
        ultimo.resultado =
            IF colegios = <<>> \/ ultimo.texto = <<>> THEN <<>>
            ELSE SelectSeq(colegios, LAMBDA c :
                     Contiene(normalizar(c["Colegio"]), normalizar(ultimo.texto)))

\* A search with a query that differs from its normalized form has returned
\* the second of two records and not the first
C18_Testigo ==
    /\ ultimo.op = "buscar_colegio"
    /\ ultimo.veces = 1
    /\ normalizar(ultimo.texto) # ultimo.texto
    /\ Len(colegios) = 2
    /\ ultimo.resultado = <<colegios[2]>>
    /\ colegios[1] # colegios[2]

\* The value of the field a range filter looks at
CampoDeRango(op, c) ==
    IF op = "filtrar_por_rango_estudiantes" THEN c["Cantidad de Estudiantes"]
    ELSE c["Año de Creación"]

\* C19: a range filter returns exactly the records whose value v satisfies
\* min <= v <= max, both ends included; with min > max the result is empty.
C19_RangoInclusivo ==
    (ultimo.op \in {"filtrar_por_rango_estudiantes", "filtrar_por_rango_año"}
     /\ ultimo.veces = 1) =>
        /\ ultimo.resultado =
              SelectSeq(colegios, LAMBDA c :
                  /\ ultimo.minimo <= CampoDeRango(ultimo.op, c)
                  /\ CampoDeRango(ultimo.op, c) <= ultimo.maximo)
        /\ ultimo.minimo > ultimo.maximo => ultimo.resultado = <<>>

\* A range whose two ends are the count of a record has returned that record
C19_Testigo ==
    /\ ultimo.op = "filtrar_por_rango_estudiantes"
    /\ ultimo.veces = 1
    /\ ultimo.minimo = ultimo.maximo
    /\ Len(colegios) = 2
    /\ Len(ultimo.resultado) = 1
    /\ ultimo.resultado[1]["Cantidad de Estudiantes"] = ultimo.maximo

\* C20: search by name, filter by province and both range filters are
\* idempotent: the same call with the same argument on its own result
\* returns that result.
C20_ConsultasIdempotentes ==
    [][ultimo'.veces = 2 => ultimo'.resultado = ultimo.resultado]_vars

\* A filter by province was put again to its result of one record out of two
C20_Testigo ==
    /\ ultimo.op = "filtrar_por_provincia"
    /\ ultimo.veces = 2
    /\ Len(colegios) = 2
    /\ Len(ultimo.resultado) = 1

----------------------------------------------------------------------------
(* Sorting and statistics (vista.py, estadisticas.py) *)

\* The code point of a character, which is what str comparison goes by
Codigo(c) ==
    CASE c = "\t" -> 9
      [] c = " " -> 32
      [] c = "-" -> 45
      [] c = "/" -> 47
      [] c = "A" -> 65
      [] c = "S" -> 83
      [] c = "X" -> 88
      [] c = "Y" -> 89
      [] c = "a" -> 97
      [] c = "b" -> 98
      [] c = "s" -> 115
      [] c = "x" -> 120
      [] c = "y" -> 121
      [] c = "Á" -> 193
      [] c = "á" -> 225
      [] OTHER -> IF EsDigito(c) THEN 48 + ValorDigito(c) ELSE 0

\* str.__lt__: lexicographic on code points, a proper prefix comes first
RECURSIVE MenorTexto(_, _)
MenorTexto(a, b) ==
    IF b = <<>> THEN FALSE
    ELSE IF a = <<>> THEN TRUE
    ELSE IF Codigo(Head(a)) # Codigo(Head(b))
    THEN Codigo(Head(a)) < Codigo(Head(b))
    ELSE MenorTexto(Tail(a), Tail(b))

CamposValidos == {"Provincia", "Colegio", "Cantidad de Estudiantes", "Año de Creación"}

CamposDeTexto == {"Provincia", "Colegio"}

\* The key= lambda of sorted()
ClaveOrden(c, campo) ==
    IF campo \in CamposDeTexto THEN normalizar(Campo(c, campo, <<>>))
    ELSE Campo(c, campo, 0)

\* key(a) < key(b)
MenorClave(a, b, campo) ==
    IF campo \in CamposDeTexto
    THEN MenorTexto(ClaveOrden(a, campo), ClaveOrden(b, campo))
    ELSE ClaveOrden(a, campo) < ClaveOrden(b, campo)

\* a has to come before b whatever their places in the input
Precede(a, b, campo, descendente) ==
    IF descendente THEN MenorClave(b, a, campo) ELSE MenorClave(a, b, campo)

\* c goes behind every record it does not have to come before
RECURSIVE Insertar(_, _, _, _)
Insertar(ordenada, c, campo, descendente) ==
    IF ordenada = <<>> THEN <<c>>
    ELSE IF Precede(c, Head(ordenada), campo, descendente)
    THEN <<c>> \o ordenada
    ELSE <<Head(ordenada)>> \o Insertar(Tail(ordenada), c, campo, descendente)

RECURSIVE Invertida(_)
Invertida(lista) ==
    IF lista = <<>> THEN <<>> ELSE Invertida(Tail(lista)) \o <<Head(lista)>>

\* sorted(lista, key=..., reverse=False)
RECURSIVE OrdenAscendente(_, _)
OrdenAscendente(lista, campo) ==
    IF lista = <<>> THEN <<>>
    ELSE Insertar(OrdenAscendente(SubSeq(lista, 1, Len(lista) - 1), campo),
                  lista[Len(lista)], campo, FALSE)

\* A descending order obtained by reversing the ascending one
InvertirAscendente(lista, campo, descendente) ==
    IF descendente THEN Invertida(OrdenAscendente(lista, campo))
    ELSE OrdenAscendente(lista, campo)

\* sorted(lista, key=..., reverse=descendente): stable in both directions
RECURSIVE sorted(_, _, _)
sorted(lista, campo, descendente) ==
    IF lista = <<>> THEN <<>>
    ELSE Insertar(sorted(SubSeq(lista, 1, Len(lista) - 1), campo, descendente),
                  lista[Len(lista)], campo, descendente)

\* error = the "Campo inválido" message was printed
ordenar_colegios(lista, campo, descendente) ==
    IF lista = <<>> THEN [resultado |-> <<>>, error |-> FALSE]
    ELSE IF campo \notin CamposValidos THEN [resultado |-> lista, error |-> TRUE]
    ELSE [resultado |-> sorted(lista, campo, descendente), error |-> FALSE]

\* min(lista, key=...): the first record with the least key
RECURSIVE PrimerMinimo(_, _, _)
PrimerMinimo(lista, campo, defecto) ==
    IF Len(lista) = 1 THEN lista[1]
    ELSE LET m == PrimerMinimo(SubSeq(lista, 1, Len(lista) - 1), campo, defecto)
             c == lista[Len(lista)]
         IN IF Campo(c, campo, defecto) < Campo(m, campo, defecto) THEN c ELSE m

\* A maximum that lets a later record of equal key replace the one it holds
RECURSIVE UltimoMaximo(_, _, _)
UltimoMaximo(lista, campo, defecto) ==
    IF Len(lista) = 1 THEN lista[1]
    ELSE LET m == UltimoMaximo(SubSeq(lista, 1, Len(lista) - 1), campo, defecto)
             c == lista[Len(lista)]
         IN IF Campo(c, campo, defecto) >= Campo(m, campo, defecto) THEN c ELSE m

\* max(lista, key=...): the first record with the greatest key
RECURSIVE PrimerMaximo(_, _, _)
PrimerMaximo(lista, campo, defecto) ==
    IF Len(lista) = 1 THEN lista[1]
    ELSE LET m == PrimerMaximo(SubSeq(lista, 1, Len(lista) - 1), campo, defecto)
             c == lista[Len(lista)]
         IN IF Campo(c, campo, defecto) > Campo(m, campo, defecto) THEN c ELSE m

RECURSIVE sumar_estudiantes_recursivo(_, _)
sumar_estudiantes_recursivo(lista, indice) ==
    IF indice > Len(lista) THEN 0
    ELSE Campo(lista[indice], "Cantidad de Estudiantes", 0)
         + sumar_estudiantes_recursivo(lista, indice + 1)

RECURSIVE Suma(_)
Suma(numeros) == IF numeros = <<>> THEN 0 ELSE Head(numeros) + Suma(Tail(numeros))

\* int(a / b) for b > 0: the quotient cut towards zero
Truncado(a, b) == IF a >= 0 THEN a \div b ELSE 0 - ((0 - a) \div b)

\* The lines mostrar_estadisticas prints, as the values they show
mostrar_estadisticas(lista) ==
    IF lista = <<>> THEN [sin_datos |-> TRUE]
    ELSE LET anios == SelectSeq([i \in 1..Len(lista) |->
                                    Campo(lista[i], "Año de Creación", 0)],
                                LAMBDA a : a > 0)
             total == sumar_estudiantes_recursivo(lista, 1)
         IN [sin_datos |-> FALSE,
             mas_antiguo |-> PrimerMinimo(lista, "Año de Creación", 9999),
             mas_nuevo |-> PrimerMaximo(lista, "Año de Creación", 0),
             promedio_anio |-> IF anios = <<>> THEN 0
                               ELSE Truncado(Suma(anios), Len(anios)),
             total_estudiantes |-> total,
             promedio_estudiantes |-> Truncado(total, Len(lista)),
             mas_estudiantes |-> PrimerMaximo(lista, "Cantidad de Estudiantes", 0),
             menos_estudiantes |->
                 PrimerMinimo(lista, "Cantidad de Estudiantes", 999999)]

----------------------------------------------------------------------------
(* Sorts and statistics over a loaded collection *)

MaxOrdenados == 3     \* longest collection sorted or summarised

\* Records with equal keys under each field: "Á" and "a" normalize alike,
\* as do "X" and "x"; two counts of 300 and two years of 1950
RegistrosVista ==
    {Colegio(<<"Á">>, <<"X">>, 300, 1950),
     Colegio(<<"a">>, <<"Y">>, 300, 2005),
     Colegio(<<"b">>, <<"x">>, 0, 1950),
     Colegio(<<"S">>, <<"y">>, 700, 0)}

ListasVista ==
    UNION {[1..n -> RegistrosVista] : n \in 0..MaxOrdenados}

\* A field name that is none of the four
CamposPedidos == CamposValidos \cup {"Nombre"}

InitVistas ==
    /\ colegios \in ListasVista
    /\ MODO_API = FALSE
    /\ archivo = [existe |-> FALSE, cabecera |-> FALSE, filas |-> <<>>]
    /\ subgrupos = <<>>
    /\ remoto = <<>>
    /\ fallas = 0
    /\ pasos = 0
    /\ ultimo = [op |-> "inicio"]

OrdenarColegios ==
    /\ ultimo.op = "inicio"
    /\ \E campo \in CamposPedidos, descendente \in BOOLEAN :
       \E r \in {ordenar_colegios(colegios, campo, descendente)} :
          ultimo' = [op |-> "ordenar_colegios", campo |-> campo,
                     descendente |-> descendente,
                     resultado |-> r.resultado, error |-> r.error]
    /\ pasos' = pasos + 1
    /\ UNCHANGED <<colegios, MODO_API, archivo, subgrupos, remoto, fallas>>

MostrarEstadisticas ==
    /\ ultimo.op = "inicio"
    /\ ultimo' = [op |-> "mostrar_estadisticas",
                  informe |-> mostrar_estadisticas(colegios)]
    /\ pasos' = pasos + 1
    /\ UNCHANGED <<colegios, MODO_API, archivo, subgrupos, remoto, fallas>>

NextVistas ==
    \/ OrdenarColegios
    \/ MostrarEstadisticas

SpecVistas == InitVistas /\ [][NextVistas]_vars

\* p lists the places of the input the records of the result came from
Reordena(p, entrada, salida) ==
    /\ Len(salida) = Len(entrada)
    /\ \A i, j \in 1..Len(entrada) : i # j => p[i] # p[j]
    /\ \A i \in 1..Len(entrada) : salida[i] = entrada[p[i]]

\* Along p keys never go against the direction, and records of equal key
\* keep the order they had in the input
OrdenEstable(p, entrada, campo, descendente) ==
    \A i, j \in 1..Len(entrada) :
        i < j =>
            /\ ~Precede(entrada[p[j]], entrada[p[i]], campo, descendente)
            /\ (~Precede(entrada[p[i]], entrada[p[j]], campo, descendente)
                => p[i] < p[j])

\* C21: a sort by a valid field returns a permutation of the input ordered
\* by that field's key (normalized text for province and name, the integer
\* for the two numeric fields), and records of equal key keep their input
\* order, ascending and descending alike.
C21_OrdenEstable ==
    (ultimo.op = "ordenar_colegios" /\ ultimo.campo \in CamposValidos) =>
        /\ ~ultimo.error
        /\ \E p \in [1..Len(colegios) -> 1..Len(colegios)] :
              /\ Reordena(p, colegios, ultimo.resultado)
              /\ OrdenEstable(p, colegios, ultimo.campo, ultimo.descendente)

\* A descending sort by province of three records, the first and the last of
\* equal normalized province, has put the first of them first and moved the
\* other province behind both
C21_Testigo ==
    /\ ultimo.op = "ordenar_colegios"
    /\ ultimo.campo = "Provincia"
    /\ ultimo.descendente
    /\ Len(colegios) = 3
    /\ colegios[1] # colegios[3]
    /\ normalizar(colegios[1]["Provincia"]) = normalizar(colegios[3]["Provincia"])
    /\ ultimo.resultado = <<colegios[2], colegios[1], colegios[3]>>
    /\ ultimo.resultado # colegios

\* C22: a sort by a field name that is none of the four reports an error and
\* returns the input collection, the same records in the same order.
C22_CampoInvalido ==
    (ultimo.op = "ordenar_colegios" /\ ultimo.campo \notin CamposValidos) =>
        /\ ultimo.error
        /\ ultimo.resultado = colegios

\* The places of the records whose founding year is v
LugaresDeAnio(lista, v) ==
    {i \in 1..Len(lista) : lista[i]["Año de Creación"] = v}

Minimo(S) == CHOOSE x \in S : \A y \in S : x <= y

Maximo(S) == CHOOSE x \in S : \A y \in S : x >= y

AniosDe(lista) == {lista[i]["Año de Creación"] : i \in 1..Len(lista)}

\* C23: over a non-empty collection the statistics report as oldest the first
\* record that has the least founding year and as newest the first record
\* that has the greatest founding year.
C23_PrimerAntiguoYPrimerNuevo ==
    (ultimo.op = "mostrar_estadisticas" /\ colegios # <<>>) =>
        /\ ~ultimo.informe.sin_datos
        /\ ultimo.informe.mas_antiguo =
              colegios[Minimo(LugaresDeAnio(colegios, Minimo(AniosDe(colegios))))]
        /\ ultimo.informe.mas_nuevo =
              colegios[Minimo(LugaresDeAnio(colegios, Maximo(AniosDe(colegios))))]

\* The statistics of three records of years 1950, 2005 and 1950, the two of
\* 1950 being different records, name the first and the second
C23_Testigo ==
    /\ ultimo.op = "mostrar_estadisticas"
    /\ Len(colegios) = 3
    /\ colegios[1]["Año de Creación"] = 1950
    /\ colegios[2]["Año de Creación"] = 2005
    /\ colegios[3]["Año de Creación"] = 1950
    /\ colegios[1] # colegios[3]
    /\ ultimo.informe.mas_antiguo = colegios[1]
    /\ ultimo.informe.mas_nuevo = colegios[2]

----------------------------------------------------------------------------
(* The requests of cliente_api.py under a failing network *)

\* What becomes of one request: a 2xx answer, no connection, a non-2xx answer
Red == {"ok", "conexion", "http"}

\* requests.get / post / patch / delete raises ConnectionError when the
\* server cannot be reached; resp.raise_for_status() raises HTTPError
ExcepcionDe(red) ==
    CASE red = "conexion" -> "ConnectionError"
      [] red = "http" -> "HTTPError"
      [] OTHER -> "ninguna"

\* cliente_api.listar_colegios: the exception that leaves it, or resp.json()
listar_colegios(rem, q, red) ==
    [excepcion |-> ExcepcionDe(red),
     valor |-> IF red = "ok" THEN ListarRemoto(rem, q) ELSE <<>>]

\* "except Exception as e" of a handler: whatever the request raised
FallaDeRed(red) ==
    IF ExcepcionDe(red) = "ninguna" THEN SinFalla ELSE [punto |-> "llamada", k |-> 0]

\* obtener_colegios_api(q) over listar_colegios: the list it returns and the
\* message it prints
ObtenerPorRed(rem, q, red) ==
    LET resp == listar_colegios(rem, q, red)
        lista == obtener_colegios_api(rem, q, resp.excepcion # "ninguna")
    IN [devuelve |-> lista,
        mensaje |-> IF resp.excepcion # "ninguna" THEN <<"error", resp.excepcion>>
                    ELSE IF lista = <<>> THEN <<"sin_datos">>
                    ELSE <<>>]

OpsRed == {"listar", "crear", "actualizar", "eliminar"}

RedesAhora == IF fallas < MaxFallas THEN Red ELSE {"ok"}

\* A handler that reached its request has returned r
RamaRed(op, red, r) ==
    /\ r.motivo \in {"ok", "remoto", "espejo"}
    /\ remoto' = r.remoto
    /\ archivo' = r.archivo
    /\ subgrupos' = r.subgrupos
    /\ fallas' = IF red # "ok" THEN fallas + 1 ELSE fallas
    /\ pasos' = pasos + 1
    /\ ultimo' = [op |-> op, red |-> red, excepcion |-> ExcepcionDe(red),
                  devuelve |-> r.resultado,
                  mensaje |-> IF red # "ok" THEN <<"error", ExcepcionDe(red)>>
                              ELSE <<>>]
    /\ UNCHANGED <<colegios, MODO_API>>

ListarPorRed ==
    /\ MODO_API
    /\ pasos < MaxPasos
    /\ \E q \in {<<>>} \cup TextosBusqueda, red \in RedesAhora :
       \E r \in {ObtenerPorRed(remoto, Strip(q), red)} :
          ultimo' = [op |-> "listar", red |-> red, q |-> Strip(q),
                     excepcion |-> ExcepcionDe(red),
                     devuelve |-> r.devuelve, mensaje |-> r.mensaje]
    /\ fallas' = IF ultimo'.red # "ok" THEN fallas + 1 ELSE fallas
    /\ pasos' = pasos + 1
    /\ UNCHANGED <<colegios, MODO_API, archivo, subgrupos, remoto>>

CrearPorRed ==
    /\ MODO_API
    /\ pasos < MaxPasos
    /\ Len(remoto) < MaxRemoto
    /\ \E provincia_in \in TextosProvincia, colegio_in \in TextosColegio,
          cantidad_in \in TextosCantidad, anio_in \in TextosAnio,
          red \in RedesAhora :
          RamaRed("crear", red,
                  agregar_colegio_api(remoto, archivo, subgrupos, provincia_in,
                                      colegio_in, cantidad_in, anio_in,
                                      FallaDeRed(red)))

ActualizarPorRed ==
    /\ MODO_API
    /\ pasos < MaxPasos
    /\ \E nombre_in \in TextosBusqueda :
       \E opcion_in \in IF PideOpcionApi(nombre_in) THEN TextosOpcion ELSE {<<>>} :
       \E pide \in {PideDatosApi(nombre_in, opcion_in)} :
       \E provincia_in \in IF pide THEN TextosProvincia ELSE {<<>>},
          colegio_in \in IF pide THEN TextosColegio ELSE {<<>>},
          cantidad_in \in IF pide THEN TextosCantidad ELSE {<<>>},
          anio_in \in IF pide THEN TextosAnio ELSE {<<>>},
          red \in RedesAhora :
          RamaRed("actualizar", red,
                  editar_colegio_api(remoto, archivo, subgrupos, nombre_in,
                                     opcion_in, provincia_in, colegio_in,
                                     cantidad_in, anio_in, FallaDeRed(red)))

EliminarPorRed ==
    /\ MODO_API
    /\ pasos < MaxPasos
    /\ \E nombre_in \in TextosBusqueda :
       \E opcion_in \in IF PideOpcionApi(nombre_in) THEN TextosOpcion ELSE {<<>>} :
       \E pide \in {PideDatosApi(nombre_in, opcion_in)} :
       \E confirmar_in \in IF pide THEN TextosConfirmar ELSE {<<>>},
          red \in RedesAhora :
          RamaRed("eliminar", red,
                  borrar_colegio_api(remoto, archivo, subgrupos, nombre_in,
                                     opcion_in, confirmar_in, FallaDeRed(red)))

InitRed ==
    /\ MODO_API = TRUE
    /\ colegios = <<>>
    /\ remoto \in {<<>>, CrearRemoto(<<>>, UnColegio)}
    /\ fallas = 0
    /\ pasos = 0
    /\ ultimo = [op |-> "inicio"]
    /\ \E g \in {escribir_csv(<<>>, ArchivoCon(<<>>), [c \in Carpetas |-> DirVacio],
                              SinFalla)} :
          /\ archivo = g.archivo
          /\ subgrupos = g.subgrupos

NextRed ==
    \/ ListarPorRed
    \/ CrearPorRed
    \/ ActualizarPorRed
    \/ EliminarPorRed

SpecRed == InitRed /\ [][NextRed]_vars

\* C24: for list, create, update and delete a connection failure and a
\* non-2xx response leave the request as different outcomes, and a list that
\* failed gives its caller something else than the list of a reachable store
\* that holds no records.
C24_FallasDistinguibles ==
    ultimo.op \in OpsRed =>
        /\ ultimo.red = "conexion" =>
              ultimo.excepcion \notin {ExcepcionDe("http"), ExcepcionDe("ok")}
        /\ ultimo.red = "http" =>
              ultimo.excepcion \notin {ExcepcionDe("conexion"), ExcepcionDe("ok")}
        /\ (ultimo.op = "listar" /\ ultimo.red # "ok") =>
              ultimo.devuelve # ObtenerPorRed(<<>>, ultimo.q, "ok").devuelve

----------------------------------------------------------------------------
(* Values that reach a store *)

ValoresValidos(c) ==
    /\ c["Cantidad de Estudiantes"] >= 0
    /\ c["Año de Creación"] >= 1800
    /\ c["Año de Creación"] <= 2100

\* C25: no create and no edit, local or remote, stores or sends a student
\* count below 0 or a founding year outside 1800..2100: what the session
\* holds in memory and what the remote service was sent are valid records.
C25_SoloValoresValidos ==
    /\ \A i \in 1..Len(colegios) : ValoresValidos(colegios[i])
    /\ \A i \in 1..Len(remoto) : ValoresValidos(remoto[i])

----------------------------------------------------------------------------
(* Failed saves of the local handlers *)

\* C26: when the save fails during a local add, edit or delete, the handler
\* returns False and the in-memory collection is again exactly what it was
\* before the handler ran, the same records in the same order.
C26_FalloDeGuardadoRestaura ==
    [][fallas' = fallas + 1 => (~ultimo'.ok /\ colegios' = colegios)]_vars

\* The delete of the only record has failed after the file was rewritten:
\* the file holds no row and the record is back in memory
C26_Testigo ==
    /\ ultimo.op = "borrar"
    /\ ~ultimo.ok
    /\ fallas = 1
    /\ pasos = 2
    /\ Len(colegios) = 1
    /\ archivo.filas = <<>>

----------------------------------------------------------------------------
(* Memory and file in local mode *)

\* C27: in local mode, whenever control is back at the main menu after any
\* sequence of add, edit and delete, successful, rejected, cancelled or
\* failed, the in-memory collection equals what loading the authoritative
\* file returns.
C27_MemoriaIgualAArchivo ==
    ~MODO_API => colegios = leer_csv(archivo)

----------------------------------------------------------------------------
(* The mirror over an empty list *)

\* C28: when the list the mirror fetches after a remote operation holds no
\* record, because the remote store is empty or because the list request
\* failed, the mirror writes nothing: the local authoritative file and every
\* bucket file keep the content they had.
C28_EspejoVacioNoEscribe ==
    [][(/\ pasos' = pasos + 1
        /\ ultimo'.llamada
        /\ \/ remoto' = <<>>
           \/ ultimo'.espejo = "nada" /\ fallas' = fallas + 1)
       => (archivo' = archivo /\ subgrupos' = subgrupos)]_vars

\* The last record of the remote store has been deleted while the local file
\* held a record, and the file still holds it
C28_Testigo ==
    /\ ultimo.op = "borrar_api"
    /\ ultimo.ok
    /\ ultimo.espejo = "nada"
    /\ remoto = <<>>
    /\ archivo.filas # <<>>

----------------------------------------------------------------------------
(* What a local edit and a local delete change: one handler run from a     *)
(* saved collection, with the texts that were typed kept in ultimo         *)

MaxEditados == 2      \* longest collection edited or deleted from

\* Two records of one name, which every search for it matches, and a record
\* of another name
RegistrosEdicion ==
    {Colegio(<<"a", "/", "b">>, <<"X">>, 0, 1970),
     Colegio(<<"a", "-", "b">>, <<"X">>, 300, 1990),
     Colegio(<<"a", "/", "b">>, <<"Y">>, 700, 2005)}

ListasEdicion == UNION {[1..n -> RegistrosEdicion] : n \in 0..MaxEditados}

InitEdicion ==
    /\ colegios \in ListasEdicion
    /\ MODO_API = FALSE
    /\ remoto = <<>>
    /\ fallas = 0
    /\ pasos = 0
    /\ ultimo = [op |-> "inicio"]
    /\ \E g \in {escribir_csv(colegios, ArchivoCon(<<>>), [c \in Carpetas |-> DirVacio],
                              SinFalla)} :
          /\ archivo = g.archivo
          /\ subgrupos = g.subgrupos

\* The branch of main around a handler that returned r, with what was typed
RamaConEntrada(op, r, entrada) ==
    /\ colegios' = IF r.resultado THEN leer_csv(r.archivo) ELSE r.colegios
    /\ archivo' = r.archivo
    /\ subgrupos' = r.subgrupos
    /\ pasos' = pasos + 1
    /\ ultimo' = [op |-> op, ok |-> r.resultado, entrada |-> entrada]
    /\ UNCHANGED <<MODO_API, remoto, fallas>>

EditarUnaVez ==
    /\ ultimo.op = "inicio"
    /\ \E nombre_in \in TextosBusqueda :
       \E opcion_in \in IF PideOpcion(nombre_in) THEN TextosOpcion ELSE {<<>>} :
       \E pide \in {PideDatos(nombre_in, opcion_in)} :
       \E provincia_in \in IF pide THEN TextosProvincia ELSE {<<>>},
          colegio_in \in IF pide THEN TextosColegio ELSE {<<>>},
          cantidad_in \in IF pide THEN TextosCantidad ELSE {<<>>},
          anio_in \in IF pide THEN TextosAnio ELSE {<<>>} :
          RamaConEntrada("editar",
              editar_colegio(colegios, archivo, subgrupos, nombre_in, opcion_in,
                             provincia_in, colegio_in, cantidad_in, anio_in, SinFalla),
              [nombre |-> nombre_in, opcion |-> opcion_in, provincia |-> provincia_in,
               colegio |-> colegio_in, cantidad |-> cantidad_in, anio |-> anio_in])

BorrarUnaVez ==
    /\ ultimo.op = "inicio"
    /\ \E nombre_in \in TextosBusqueda :
       \E opcion_in \in IF PideOpcion(nombre_in) THEN TextosOpcion ELSE {<<>>} :
       \E pide \in {PideDatos(nombre_in, opcion_in)} :
       \E confirmar_in \in IF pide THEN TextosConfirmar ELSE {<<>>} :
          RamaConEntrada("borrar",
              borrar_colegio(colegios, archivo, subgrupos, nombre_in, opcion_in,
                             confirmar_in, SinFalla),
              [nombre |-> nombre_in, opcion |-> opcion_in, confirmar |-> confirmar_in])

NextEdicion ==
    \/ EditarUnaVez
    \/ BorrarUnaVez

SpecEdicion == InitEdicion /\ [][NextEdicion]_vars

\* The record c with the fields that were given a non-blank text replaced
Editado(c, e) ==
    [k \in DOMAIN c |->
        CASE k = "Provincia" /\ Strip(e.provincia) # <<>> -> Strip(e.provincia)
          [] k = "Colegio" /\ Strip(e.colegio) # <<>> -> Strip(e.colegio)
          [] k = "Cantidad de Estudiantes" /\ Strip(e.cantidad) # <<>> ->
                 ParseInt(e.cantidad).val
          [] k = "Año de Creación" /\ Strip(e.anio) # <<>> -> ParseInt(e.anio).val
          [] OTHER -> c[k]]

\* The record of the collection the texts e.nombre and e.opcion select
Elegido(e) ==
    Seleccion(indices_encontrados(colegios, Strip(e.nombre)), e.opcion)

\* Several records match and the number typed is none of theirs
FueraDeRango(e) ==
    /\ Strip(e.nombre) # <<>>
    /\ Len(indices_encontrados(colegios, Strip(e.nombre))) > 1
    /\ ~(ParseInt(e.opcion).ok
         /\ ParseInt(e.opcion).val
                \in 1..Len(indices_encontrados(colegios, Strip(e.nombre))))

\* C29: a successful local edit changes only the fields that were given a
\* non-blank value, and only on the selected record; a successful local
\* delete removes exactly the selected record; every other record keeps its
\* content and its place among the others.  A delete that is not confirmed
\* with 's', and an edit or delete whose selection among several matches is
\* out of range, leave the collection and the file unchanged.
C29_SoloElSeleccionado ==
    [][/\ (ultimo'.op = "editar" /\ ultimo'.ok) =>
              /\ colegios' = [i \in 1..Len(colegios) |->
                                 IF i = Elegido(ultimo'.entrada)
                                 THEN Editado(colegios[i], ultimo'.entrada)
                                 ELSE colegios[i]]
              /\ leer_csv(archivo') = colegios'
       /\ (ultimo'.op = "borrar" /\ ultimo'.ok) =>
              /\ colegios' = Quitar(colegios, Elegido(ultimo'.entrada))
              /\ leer_csv(archivo') = colegios'
       /\ (/\ ultimo'.op \in {"editar", "borrar"}
           /\ \/ FueraDeRango(ultimo'.entrada)
              \/ /\ ultimo'.op = "borrar"
                 /\ lower(Strip(ultimo'.entrada.confirmar)) # <<"s">>)
          => /\ ~ultimo'.ok
             /\ colegios' = colegios
             /\ archivo' = archivo
             /\ subgrupos' = subgrupos]_vars

\* Of two records of one name and different provinces the second was
\* selected and given a new count only: it alone has changed, in its count
C29_Testigo ==
    /\ ultimo.op = "editar"
    /\ ultimo.ok
    /\ ultimo.entrada.opcion = <<"2">>
    /\ Strip(ultimo.entrada.provincia) = <<>>
    /\ Strip(ultimo.entrada.colegio) = <<>>
    /\ ultimo.entrada.cantidad = <<"3", "0", "0">>
    /\ ultimo.entrada.anio = <<>>
    /\ Len(colegios) = 2
    /\ colegios[1] = Colegio(<<"a", "-", "b">>, <<"X">>, 300, 1990)
    /\ colegios[2] = Colegio(<<"a", "/", "b">>, <<"X">>, 300, 1970)

----------------------------------------------------------------------------
(* The mode controller: elegir_modo and a session that changes mode *)

\* cliente_api.estado_servidor: the exception that leaves it
estado_servidor(red) == ExcepcionDe(red)

\* elegir_modo that stays in API mode when the health check raises
ElegirModoSinVolver(opcion, red, lista, arch) ==
    IF opcion = 1
    THEN [MODO_API |-> FALSE, colegios |-> leer_csv(arch)]
    ELSE [MODO_API |-> TRUE, colegios |-> lista]

\* elegir_modo for the options 1 (local) and 2 (API): the two globals as it
\* leaves them.  Option 3 ends the program and any other option asks again.
elegir_modo(opcion, red, lista, arch) ==
    IF opcion = 1
    THEN [MODO_API |-> FALSE, colegios |-> leer_csv(arch)]
    ELSE IF estado_servidor(red) # "ninguna"
    THEN [MODO_API |-> FALSE, colegios |-> leer_csv(arch)]
    ELSE [MODO_API |-> TRUE, colegios |-> lista]

\* Option 10 of the menu, and the selection at start-up
ElegirModo ==
    /\ pasos < MaxPasos
    /\ \E opcion \in {1, 2} :
       \E red \in IF opcion = 2 THEN RedesAhora ELSE {"ok"} :
       \E r \in {elegir_modo(opcion, red, colegios, archivo)} :
          /\ MODO_API' = r.MODO_API
          /\ colegios' = r.colegios
          /\ fallas' = IF red # "ok" THEN fallas + 1 ELSE fallas
          /\ ultimo' = [op |-> "elegir_modo", opcion |-> opcion, red |-> red]
    /\ pasos' = pasos + 1
    /\ UNCHANGED <<archivo, subgrupos, remoto>>

InitSesion ==
    /\ colegios = <<>>
    /\ MODO_API = FALSE
    /\ archivo = ArchivoCon(<<>>)
    /\ subgrupos = [c \in Carpetas |-> DirVacio]
    /\ remoto \in {<<>>, CrearRemoto(<<>>, UnColegio)}
    /\ fallas = 0
    /\ pasos = 0
    /\ ultimo = [op |-> "inicio", ok |-> TRUE, escrito |-> TRUE]

NextSesion ==
    \/ ElegirModo
    \/ AgregarColegio
    \/ EditarColegio
    \/ BorrarColegio
    \/ AgregarColegioApi
    \/ EditarColegioApi
    \/ BorrarColegioApi

SpecSesion == InitSesion /\ [][NextSesion]_vars

OpsLocal == {"agregar", "editar", "borrar"}

\* C30: when the user selects remote mode and the health check fails, the
\* selection ends in local mode with the in-memory collection reloaded from
\* the authoritative file; the session is not left in remote mode, and while
\* it is in local mode every add, edit and delete goes to the local store and
\* none reaches the remote one.
C30_FalloDeSaludVuelveALocal ==
    [][/\ (/\ ultimo'.op = "elegir_modo"
           /\ pasos' = pasos + 1
           /\ ultimo'.opcion = 2
           /\ ultimo'.red # "ok")
          => (~MODO_API' /\ colegios' = leer_csv(archivo'))
       /\ (~MODO_API /\ pasos' = pasos + 1 /\ ultimo'.op # "elegir_modo")
          => (ultimo'.op \in OpsLocal /\ remoto' = remoto /\ ~MODO_API')]_vars

\* After two earlier steps that left a record in the local file, remote mode
\* was selected, the server could not be reached, and the session is in
\* local mode holding the record of the file
C30_Testigo ==
    /\ ultimo.op = "elegir_modo"
    /\ ultimo.opcion = 2
    /\ ultimo.red = "conexion"
    /\ ~MODO_API
    /\ pasos = 3
    /\ Len(colegios) = 1
    /\ colegios = leer_csv(archivo)

====
